---- MODULE Spec2Model ----
(***************************************************************************)
(* Batch engine of pkg/processor: DefaultBatchProcessor.ProcessBatch, its  *)
(* worker pool, processItem, the codecs it dispatches to and the part of   *)
(* the filesystem they touch.                                              *)
(***************************************************************************)
EXTENDS Integers, Sequences, FiniteSets, TLC

-----------------------------------------------------------------------------
(* Bounds of the model *)

\* longest batch handed to ProcessBatch
MaxItems == 2
\* largest worker count given to WithMaxWorkers / reported by runtime.NumCPU
MaxWorkers == 2
\* most files of a batch shown by the TUI
MaxFiles == 3
\* longest source handed to readAllWithLimit on its own
MaxLen == 4

-----------------------------------------------------------------------------
(* Values *)

Nil == "nil"

\* ImageFormat (iota) and the value detectFormatFromPath returns with an error
FormatJPEG == 0
FormatPNG == 1
FormatInvalid == -1

\* CompressionLevel (iota)
CompressionLow == 0
CompressionMedium == 1
CompressionHigh == 2

\* errors, by the place that produces them
ErrCanceled == "context canceled"
ErrDeadline == "context deadline exceeded"
ErrUnsupportedExt == "unsupported image format"
ErrUnsupportedFormat == "unsupported format"
ErrOpen == "failed to open input file"
ErrMkdir == "failed to create output directory"
ErrCreate == "failed to create output file"
ErrPreserveMetadataNotSupported == "preserve metadata is not yet supported"
ErrNegativeMaxFileSize == "max file size must be non-negative"
ErrFileTooLarge == "failed to read input: file size exceeds maximum allowed size"
ErrDecode == "failed to decode image"
ErrEncode == "failed to encode"

Min(a, b) == IF a < b THEN a ELSE b

-----------------------------------------------------------------------------
(* Paths: sequences of characters, as path/filepath sees them *)

Sep == "/"
Dot == "."

UpperChars ==
  <<"A", "B", "C", "D", "E", "F", "G", "H", "I", "J", "K", "L", "M", "N", "O", "P", "Q", "R",
    "S", "T", "U", "V", "W", "X", "Y", "Z">>
LowerChars ==
  <<"a", "b", "c", "d", "e", "f", "g", "h", "i", "j", "k", "l", "m", "n", "o", "p", "q", "r",
    "s", "t", "u", "v", "w", "x", "y", "z">>

LowerOf ==
  [c \in {UpperChars[i] : i \in 1..26} |->
     LowerChars[CHOOSE i \in 1..26 : UpperChars[i] = c]]

\* strings.ToLower
ToLower(s) == [i \in 1..Len(s) |-> IF s[i] \in DOMAIN LowerOf THEN LowerOf[s[i]] ELSE s[i]]

\* filepath.Ext: the suffix beginning at the final dot of the final element
RECURSIVE ExtFrom(_, _)
ExtFrom(path, i) ==
  IF i < 1 \/ path[i] = Sep THEN <<>>
  ELSE IF path[i] = Dot THEN SubSeq(path, i, Len(path))
  ELSE ExtFrom(path, i - 1)

Ext(path) == ExtFrom(path, Len(path))

\* index of the last separator of path, 0 if there is none
RECURSIVE LastSep(_, _)
LastSep(path, i) ==
  IF i < 1 THEN 0 ELSE IF path[i] = Sep THEN i ELSE LastSep(path, i - 1)

\* filepath.Dir
Dir(path) ==
  LET k == LastSep(path, Len(path))
  IN IF k = 0 THEN <<Dot>> ELSE IF k = 1 THEN <<Sep>> ELSE SubSeq(path, 1, k - 1)

\* variant: every path is taken for a JPEG file
detectAlwaysJPEG(path) == [format |-> FormatJPEG, err |-> Nil]

\* detectFormatFromPath: [format, err]
detectFormatFromPath(path) ==
  LET ext == ToLower(Ext(path))
  IN IF ext \in {<<".", "j", "p", "g">>, <<".", "j", "p", "e", "g">>}
       THEN [format |-> FormatJPEG, err |-> Nil]
     ELSE IF ext = <<".", "p", "n", "g">>
       THEN [format |-> FormatPNG, err |-> Nil]
     ELSE [format |-> FormatInvalid, err |-> ErrUnsupportedExt]

-----------------------------------------------------------------------------
(* Options and codec knobs *)

\* DefaultCompressOptions
DefaultCompressOptions ==
  [Quality |-> 0, Level |-> CompressionMedium, PreserveMetadata |-> FALSE, MaxFileSize |-> 0]

\* CompressOptions.Validate: Nil or the error
Validate(o) ==
  IF o.PreserveMetadata THEN ErrPreserveMetadataNotSupported
  ELSE IF o.MaxFileSize < 0 THEN ErrNegativeMaxFileSize
  ELSE Nil

\* CompressionLevel.ToJPEGQuality
ToJPEGQuality(c) ==
  CASE c = CompressionLow -> 60
    [] c = CompressionMedium -> 75
    [] c = CompressionHigh -> 90
    [] OTHER -> 75

\* the quality JPEGProcessor.Compress hands to jpeg.Encode
JPEGQuality(o) ==
  LET q0 == IF o.Quality <= 0 THEN ToJPEGQuality(o.Level) ELSE o.Quality
      q1 == IF q0 < 1 THEN 1 ELSE q0
  IN IF q1 > 100 THEN 100 ELSE q1

-----------------------------------------------------------------------------
(* File contents.  A file holds [kind, len]; image.Decode accepts the kinds  *)
(* whose decoder is registered (image/jpeg, image/png).                      *)

\* no file, no file handle
NoFile == <<>>
Empty == [kind |-> "empty", len |-> 0]
Partial == [kind |-> "partial", len |-> 1]

Decodable(data) == data.kind \in {"jpeg", "png", "webp"}

\* what jpeg.Encode / png.Encoder.Encode write for a decoded image
EncodeJPEG(img, quality) == [kind |-> "jpeg", len |-> 1 + (img.len * quality) \div 100]
EncodePNG(img, level) ==
  [kind |-> "png", len |-> IF img.len - level < 1 THEN 1 ELSE img.len - level]

\* math.MaxInt64, with int64 scaled down to 8 bits
MaxInt64 == 127

\* readAllWithLimit: TRUE when the input is rejected as too large
TooLarge(data, maxSize) ==
  IF maxSize <= 0 THEN FALSE
  ELSE IF maxSize = MaxInt64 THEN FALSE
  ELSE Min(data.len, maxSize + 1) > maxSize

-----------------------------------------------------------------------------
(* The files and the work items of the model *)

pA == <<"a", ".", "j", "p", "g">>
pB == <<"b", ".", "P", "N", "G">>
pC == <<"c", ".", "t", "x", "t">>
pM == <<"m", ".", "j", "p", "e", "g">>
pO == <<"o">>
pD == <<"d">>
Under(d, p) == d \o <<Sep>> \o p

\* the regular files before the batch: path -> inode, inode -> contents
InitFiles == (pA :> <<"init", 1>>) @@ (pB :> <<"init", 2>>) @@ (pC :> <<"init", 3>>)
InitInodes ==
  (<<"init", 1>> :> [kind |-> "jpeg", len |-> 4]) @@
  (<<"init", 2>> :> [kind |-> "garbage", len |-> 3]) @@
  (<<"init", 3>> :> [kind |-> "garbage", len |-> 2])
InitDirs == {<<Dot>>, pD}

Item(in, out) == [InputPath |-> in, OutputPath |-> out, Options |-> DefaultCompressOptions]

ItemGood == Item(pA, Under(pO, pA))
ItemCorrupt == Item(pB, Under(pO, pB))
ItemUnsupported == Item(pC, Under(pO, pC))
ItemMissing == Item(pM, Under(pO, pM))
ItemCollide == Item(pB, Under(pO, pA))
ItemNoMkdir == Item(pA, Under(pC, pA))
ItemNoCreate == Item(pA, pD)
ItemPrefix == Item(pB, pO)
\* output written over the input itself; input missing and output already there
ItemInPlace == Item(pA, pA)
ItemOverExisting == Item(pM, pA)

ItemUniverse ==
  {ItemGood, ItemCorrupt, ItemUnsupported, ItemMissing, ItemCollide, ItemNoMkdir, ItemNoCreate,
   ItemInPlace, ItemOverExisting}

\* the items that batches of several items are made of: the ones that meet
\* on a file (the input of ItemCollide is that of ItemCorrupt, its output that of
\* ItemGood) and one that fails before touching any
PairUniverse == {ItemGood, ItemCorrupt, ItemCollide, ItemUnsupported}

\* two items with different paths, the output of one being the directory the
\* output of the other goes into
PrefixBatches == {<<ItemGood, ItemPrefix>>, <<ItemPrefix, ItemGood>>}

\* the batches ProcessBatch is called with: none, every single item, every
\* sequence of 2..MaxItems items of PairUniverse, and the prefix batches
Batches ==
  {<<>>} \cup {<<it>> : it \in ItemUniverse}
    \cup UNION {[1..n -> PairUniverse] : n \in 2..MaxItems}
    \cup PrefixBatches

AllPaths ==
  {it.InputPath : it \in ItemUniverse} \cup {it.OutputPath : it \in ItemUniverse}
    \cup {Dir(it.OutputPath) : it \in ItemUniverse}

\* inode of the file item i creates
NewInode(i) == <<"item", i>>

-----------------------------------------------------------------------------
(* State *)

VARIABLES
  optWorkers,        \* arguments of the WithMaxWorkers options given to the constructor
  maxWorkers,        \* bp.maxWorkers
  progressCallback,  \* TRUE when bp.progressCallback is not nil
  ctxErr,            \* ctx.Err(): Nil until the token is cancelled or times out
  ctxAtCall,         \* ctx.Err() at the moment ProcessBatch was called
  pcMain,            \* "idle", "wait" (in wg.Wait) or "returned"
  items,             \* the batch
  results,           \* results slice
  itemCh,            \* buffered channel of indices (closed once filled)
  mu,                \* 0 when free, else the worker holding it
  progress,          \* shared Progress counters
  workers,           \* worker goroutines started
  wk,                \* per worker: position and locals
  files,             \* path -> inode of the regular file there, or NoFile
  inodes,            \* inode -> contents
  dirs,              \* existing directories
  cbCount,           \* invocations of the progress callback so far
  lastCb,            \* snapshot passed to the most recent invocation
  cbLog,             \* the invocations so far, in the order they began: [idx, p]
  hist,              \* per item: how often dequeued / stored, what was touched
  ret,               \* what ProcessBatch returned (read once pcMain = "returned")
  cx,                \* a codec called on its own: position, arguments, locals, outcome
  det,               \* detectFormatFromPath called on its own: argument and outcome
  scan,              \* a directory scan: arguments, walk position, items, outcome
  cli,               \* the text-mode directory command after ProcessBatch: counts, summary, error
  tui,               \* the TUI program: its Model, the messages sent, the command's outcome
  rd                 \* readAllWithLimit called on its own: arguments, locals, outcome

vars ==
  <<optWorkers, maxWorkers, progressCallback, ctxErr, ctxAtCall, pcMain, items, results,
    itemCh, mu, progress, workers, wk, files, inodes, dirs, cbCount, lastCb, cbLog, hist,
    ret, cx, det, scan, cli, tui, rd>>

frontVars == <<det, scan, cli, tui, rd>>
cfgVars == <<optWorkers, maxWorkers, progressCallback>>
fsVars == <<files, inodes, dirs>>
cbVars == <<cbCount, lastCb, cbLog>>

WorkerIds == 1..MaxWorkers

\* zero value of BatchItem / BatchResult / Progress
ZeroItem == [InputPath |-> <<>>, OutputPath |-> <<>>,
             Options |-> [Quality |-> 0, Level |-> 0, PreserveMetadata |-> FALSE, MaxFileSize |-> 0]]
\* a *Result is <<>> when nil, <<r>> when it points to r
NilResult == <<>>
ZeroResult == [Item |-> ZeroItem, Result |-> NilResult, Error |-> Nil]
ZeroProgress == [Total |-> 0, Completed |-> 0, Failed |-> 0, Current |-> <<>>]

IdleWorker ==
  [pc |-> "off", idx |-> 0, result |-> ZeroResult, p |-> ZeroProgress, format |-> FormatInvalid,
   proc |-> FormatInvalid,
   inFile |-> NoFile, outFile |-> NoFile, data |-> Empty, err |-> Nil]

ZeroHist == [taken |-> 0, stored |-> 0, fsOps |-> 0, codec |-> 0, late |-> FALSE]

\* no codec call of its own under way
IdleCodec ==
  [pc |-> "idle", codec |-> FormatInvalid, op |-> "none",
   opts |-> [Quality |-> 0, Level |-> 0, PreserveMetadata |-> FALSE, MaxFileSize |-> 0,
             Format |-> FormatInvalid],
   src |-> Empty, read |-> 0, data |-> Empty, quality |-> 0, buf |-> 0, written |-> 0,
   n |-> 0, writes |-> 0, result |-> NilResult, err |-> Nil,
   ctxAtCall |-> Nil, ctxAtDecode |-> Nil, ctxAtEncode |-> Nil]

\* detectFormatFromPath not called yet
IdleDetect ==
  [pc |-> "idle", path |-> <<>>, out |-> [format |-> FormatInvalid, err |-> Nil], prev |-> <<>>]

\* no scan, no text-mode summary, no TUI program yet
IdleScan ==
  [pc |-> "idle", inputDir |-> <<>>, outputDir |-> <<>>, target |-> <<>>, opts |-> <<>>,
   tree |-> {}, unreadable |-> {}, queue |-> <<>>, items |-> <<>>, err |-> Nil]
IdleCli == [pc |-> "idle", successCount |-> 0, failCount |-> 0, summary |-> <<>>, err |-> Nil]
\* tui.NewModel()
\* (progress.New: a bar 40 cells wide at 0 percent; a percentage is <<num, den>>)
NewModel ==
  [state |-> "StateWaiting", totalFiles |-> 0, completed |-> 0, failed |-> 0,
   currentFile |-> <<>>, results |-> <<>>, err |-> Nil,
   progress |-> [Width |-> 40, target |-> <<0, 1>>, shown |-> <<0, 1>>]]
\* last: the type of the message Update handled last; p: the snapshot carried by
\* the last ProgressMsg
IdleTui ==
  [pc |-> "idle", m |-> NewModel, results |-> <<>>, sent |-> "none", last |-> "none",
   p |-> ZeroProgress, err |-> Nil]

\* readAllWithLimit not called yet; data is <<>> when nil, <<bytes>> otherwise
IdleReader ==
  [pc |-> "idle", src |-> [bytes |-> <<>>, errAt |-> -1], maxSize |-> 0, limit |-> 0,
   data |-> <<>>, err |-> Nil]

\* runtime.NumCPU() on the machine of the model
NumCPU == 1

\* NewDefaultBatchProcessor: if bp.maxWorkers < 1 { bp.maxWorkers = 1 }
FloorWorkers(n) == IF n < 1 THEN 1 ELSE n

\* NewDefaultBatchProcessor: runtime.NumCPU(), then the options, then the floor
NewMaxWorkers(cpu, opts) == FloorWorkers(IF opts = <<>> THEN cpu ELSE opts[Len(opts)])

Init ==
  /\ optWorkers \in {<<>>} \cup {<<n>> : n \in -1..MaxWorkers}
  /\ maxWorkers = NewMaxWorkers(NumCPU, optWorkers)
  /\ progressCallback \in BOOLEAN
  /\ ctxErr = Nil
  /\ ctxAtCall = Nil
  /\ pcMain = "idle"
  /\ items = <<>>
  /\ results = <<>>
  /\ itemCh = <<>>
  /\ mu = 0
  /\ progress = ZeroProgress
  /\ workers = {}
  /\ wk = [w \in WorkerIds |-> IdleWorker]
  /\ files = [p \in AllPaths |-> IF p \in DOMAIN InitFiles THEN InitFiles[p] ELSE NoFile]
  /\ inodes = InitInodes
  /\ dirs = InitDirs
  /\ cbCount = 0
  /\ lastCb = ZeroProgress
  /\ cbLog = <<>>
  /\ hist = <<>>
  /\ ret = [results |-> <<>>, err |-> Nil]
  /\ cx = IdleCodec
  /\ det = IdleDetect
  /\ scan = IdleScan
  /\ cli = IdleCli
  /\ tui = IdleTui
  /\ rd = IdleReader

-----------------------------------------------------------------------------
(* ProcessBatch: the calling goroutine *)

\* variant: one worker per configured slot, however short the batch
WorkerCountUncapped(mw, n) == mw

\* workers := min(bp.maxWorkers, len(items))
WorkerCount(mw, n) == Min(mw, n)

\* ProcessBatch up to wg.Wait: results and channel made, indices queued, channel
\* closed, workers started.  An empty batch returns at once.
Call(batch) ==
  /\ pcMain = "idle"
  /\ items' = batch
  /\ ctxAtCall' = ctxErr
  /\ IF Len(batch) = 0
       THEN /\ pcMain' = "returned"
            /\ ret' = [results |-> <<>>, err |-> Nil]
            /\ UNCHANGED <<results, itemCh, progress, workers, wk, hist>>
       ELSE /\ pcMain' = "wait"
            /\ results' = [i \in 1..Len(batch) |-> ZeroResult]
            /\ itemCh' = [i \in 1..Len(batch) |-> i]
            /\ progress' = [ZeroProgress EXCEPT !.Total = Len(batch)]
            /\ workers' = 1..WorkerCount(maxWorkers, Len(batch))
            /\ wk' = [w \in WorkerIds |->
                        IF w \in 1..WorkerCount(maxWorkers, Len(batch))
                          THEN [IdleWorker EXCEPT !.pc = "recv"] ELSE IdleWorker]
            /\ hist' = [i \in 1..Len(batch) |-> ZeroHist]
            /\ ret' = ret
  /\ UNCHANGED <<cfgVars, cx, frontVars, ctxErr, mu, fsVars, cbVars>>

\* variant: the first item error is returned as the error of the call
ReturnedFirstError(rs) ==
  LET bad == {i \in 1..Len(rs) : rs[i].Error # Nil}
  IN IF bad = {} THEN Nil ELSE rs[CHOOSE i \in bad : \A j \in bad : i <= j].Error

\* the error ProcessBatch returns next to the results
ReturnedError(rs) == Nil

\* variant: the wait ends as soon as every item has been counted
WaitedForCounts(ws) == progress.Completed + progress.Failed = progress.Total

\* wg.Wait(): every goroutine started with wg.Go has returned
Waited(ws) == \A w \in ws : wk[w].pc = "done"

\* wg.Wait returns when every worker has left its loop; return results, nil
Return ==
  /\ pcMain = "wait"
  /\ Waited(workers)
  /\ pcMain' = "returned"
  /\ ret' = [results |-> results, err |-> ReturnedError(results)]
  /\ UNCHANGED <<cfgVars, cx, frontVars, ctxErr, ctxAtCall, items, results, itemCh, mu, progress, workers,
                 wk, fsVars, cbVars, hist>>

\* the caller's cancel function is called, before or during the call
Cancel ==
  /\ pcMain # "returned"
  /\ ctxErr = Nil
  /\ ctxErr' = ErrCanceled
  /\ UNCHANGED <<cfgVars, cx, frontVars, ctxAtCall, pcMain, items, results, itemCh, mu, progress, workers,
                 wk, fsVars, cbVars, hist, ret>>

\* the deadline of the token passes.  The deadlines of the model are short: one
\* that passes at all has passed when ProcessBatch is called.
Expire ==
  /\ pcMain = "idle"
  /\ ctxErr = Nil
  /\ ctxErr' = ErrDeadline
  /\ UNCHANGED <<cfgVars, cx, frontVars, ctxAtCall, pcMain, items, results, itemCh, mu, progress, workers,
                 wk, fsVars, cbVars, hist, ret>>

-----------------------------------------------------------------------------
(* Worker goroutines: the loop body of ProcessBatch *)

\* variant: a failure that also carries a (zero) Result
FailureWithResult(item, e) ==
  [Item |-> item, Result |-> <<[OriginalSize |-> 0, CompressedSize |-> 0, Format |-> 0]>>,
   Error |-> e]

Failure(item, e) == [Item |-> item, Result |-> NilResult, Error |-> e]
Success(item, r) == [Item |-> item, Result |-> <<r>>, Error |-> Nil]

\* a worker leaving processItem with result r: the locals of the call are gone
Leave(w, r) ==
  [IdleWorker EXCEPT !.pc = "store", !.idx = wk[w].idx, !.result = r]

\* a codec call failing with e: processItem goes on to its cleanup
CodecFails(w, e) == [wk[w] EXCEPT !.pc = "cleanup", !.err = e, !.data = Empty]

ItemOf(w) == items[wk[w].idx]

\* variant: the index is read but left in the channel
DequeuePeek(ch) == ch

\* the channel after one receive
Dequeue(ch) == Tail(ch)

\* variant: the loop ends at the first failure recorded, leaving the rest
MoreItemsUntilFailure(ch, rs) ==
  ch # <<>> /\ \A i \in 1..Len(rs) : rs[i].Error = Nil

\* for idx := range itemCh: the loop goes on while the closed channel holds an
\* index, whatever the results so far
MoreItems(ch, rs) == ch # <<>>

\* for idx := range itemCh
Recv(w) ==
  /\ pcMain = "wait"
  /\ wk[w].pc = "recv"
  /\ IF MoreItems(itemCh, results)
       THEN /\ wk' = [wk EXCEPT ![w].pc = "select", ![w].idx = Head(itemCh)]
            /\ itemCh' = Dequeue(itemCh)
            /\ hist' = [hist EXCEPT ![Head(itemCh)].taken = @ + 1,
                                    ![Head(itemCh)].late = (ctxErr # Nil)]
       ELSE /\ wk' = [wk EXCEPT ![w] = [IdleWorker EXCEPT !.pc = "done"]]
            /\ UNCHANGED <<itemCh, hist>>
  /\ UNCHANGED <<cfgVars, cx, frontVars, ctxErr, ctxAtCall, pcMain, items, results, mu, progress, workers,
                 fsVars, cbVars, ret>>

\* variant: the loop never looks at the token
DoneNever(e) == FALSE

\* case <-ctx.Done() is ready
Done(e) == e # Nil

\* variant: the cancellation branch forgets the error
CancelledWithoutError(item, e) == [Item |-> item, Result |-> NilResult, Error |-> Nil]

\* result = BatchResult{Item: items[idx], Error: ctx.Err()}
CancelledResult(item, e) == Failure(item, e)

\* select { case <-ctx.Done(): ... default: ... }
Select(w) ==
  /\ wk[w].pc = "select"
  /\ wk' = [wk EXCEPT ![w] =
              IF Done(ctxErr) THEN Leave(w, CancelledResult(ItemOf(w), ctxErr))
              ELSE [@ EXCEPT !.pc = "detect"]]
  /\ UNCHANGED <<cfgVars, cx, frontVars, ctxErr, ctxAtCall, pcMain, items, results, itemCh, mu, progress,
                 workers, fsVars, cbVars, hist, ret>>

\* processItem: detectFormatFromPath(item.InputPath)
Detect(w) ==
  /\ wk[w].pc = "detect"
  /\ LET d == detectFormatFromPath(ItemOf(w).InputPath)
     IN wk' = [wk EXCEPT ![w] =
                 IF d.err # Nil THEN Leave(w, Failure(ItemOf(w), d.err))
                 ELSE [@ EXCEPT !.pc = "open", !.format = d.format]]
  /\ UNCHANGED <<cfgVars, cx, frontVars, ctxErr, ctxAtCall, pcMain, items, results, itemCh, mu, progress,
                 workers, fsVars, cbVars, hist, ret>>

\* processItem: os.Open(item.InputPath)
Open(w) ==
  /\ wk[w].pc = "open"
  /\ LET f == files[ItemOf(w).InputPath]
     IN wk' = [wk EXCEPT ![w] =
                 IF f = NoFile THEN Leave(w, Failure(ItemOf(w), ErrOpen))
                 ELSE [@ EXCEPT !.pc = "mkdir", !.inFile = f]]
  /\ hist' = [hist EXCEPT ![wk[w].idx].fsOps = @ + 1]
  /\ UNCHANGED <<cfgVars, cx, frontVars, ctxErr, ctxAtCall, pcMain, items, results, itemCh, mu, progress,
                 workers, fsVars, cbVars, ret>>

\* the directory and every directory above it
RECURSIVE Ancestors(_)
Ancestors(d) == IF Len(d) <= 1 THEN {d} ELSE {d} \cup Ancestors(Dir(d))

IsFile(p) == p \in DOMAIN files /\ files[p] # NoFile

\* os.MkdirAll fails when a component of the path is a regular file
MkdirAllFails(d) == \E a \in Ancestors(d) : IsFile(a)

\* processItem: os.MkdirAll(filepath.Dir(item.OutputPath))
Mkdir(w) ==
  /\ wk[w].pc = "mkdir"
  /\ LET d == Dir(ItemOf(w).OutputPath)
     IN IF MkdirAllFails(d)
          THEN /\ wk' = [wk EXCEPT ![w] = Leave(w, Failure(ItemOf(w), ErrMkdir))]
               /\ dirs' = dirs
          ELSE /\ wk' = [wk EXCEPT ![w].pc = "create"]
               /\ dirs' = dirs \cup Ancestors(d)
  /\ hist' = [hist EXCEPT ![wk[w].idx].fsOps = @ + 1]
  /\ UNCHANGED <<cfgVars, cx, frontVars, ctxErr, ctxAtCall, pcMain, items, results, itemCh, mu, progress,
                 workers, files, inodes, cbVars, ret>>

\* processItem: os.Create(item.OutputPath): a new empty file, or the existing
\* file truncated; fails on a directory
Create(w) ==
  /\ wk[w].pc = "create"
  /\ LET out == ItemOf(w).OutputPath
         new == NewInode(wk[w].idx)
     IN IF out \in dirs
          THEN /\ wk' = [wk EXCEPT ![w] = Leave(w, Failure(ItemOf(w), ErrCreate))]
               /\ UNCHANGED <<files, inodes>>
          ELSE IF files[out] # NoFile
          THEN /\ wk' = [wk EXCEPT ![w].pc = "codec", ![w].outFile = files[out]]
               /\ inodes' = [inodes EXCEPT ![files[out]] = Empty]
               /\ files' = files
          ELSE /\ wk' = [wk EXCEPT ![w].pc = "codec", ![w].outFile = new]
               /\ inodes' = (new :> Empty) @@ inodes
               /\ files' = [files EXCEPT ![out] = new]
  /\ hist' = [hist EXCEPT ![wk[w].idx].fsOps = @ + 1]
  /\ UNCHANGED <<cfgVars, cx, frontVars, ctxErr, ctxAtCall, pcMain, items, results, itemCh, mu, progress,
                 workers, dirs, cbVars, ret>>

-----------------------------------------------------------------------------
(* The codec call of processItem: JPEGProcessor.Compress, PNGProcessor.Compress *)

\* checkContext
checkContext == ctxErr

\* variant: the two processors are swapped
ProcessorSwapped(format) ==
  CASE format = FormatJPEG -> FormatPNG
    [] format = FormatPNG -> FormatJPEG
    [] OTHER -> FormatInvalid

\* processItem: switch format { case FormatJPEG: proc = bp.jpegProc; case
\* FormatPNG: proc = bp.pngProc; default: return ... }.  A processor is named by
\* its own format, FormatInvalid is the default branch.
ProcessorFor(format) ==
  CASE format = FormatJPEG -> FormatJPEG
    [] format = FormatPNG -> FormatPNG
    [] OTHER -> FormatInvalid

\* processItem: the format switch, then the first statements of Compress
\* (PNG: opts.Validate and checkContext; JPEG: the select on ctx.Done)
CodecStart(w) ==
  /\ wk[w].pc = "codec"
  /\ LET f == ProcessorFor(wk[w].format)
         o == ItemOf(w).Options
     IN IF f = FormatInvalid
          THEN /\ wk' = [wk EXCEPT ![w] = Leave(w, Failure(ItemOf(w), ErrUnsupportedFormat))]
               /\ hist' = hist
          ELSE /\ wk' = [wk EXCEPT ![w] =
                          [(IF f = FormatPNG /\ Validate(o) # Nil THEN CodecFails(w, Validate(o))
                            ELSE IF checkContext # Nil THEN CodecFails(w, checkContext)
                            ELSE [@ EXCEPT !.pc = "read"])
                           EXCEPT !.proc = f]]
               /\ hist' = [hist EXCEPT ![wk[w].idx].codec = @ + 1]
  /\ UNCHANGED <<cfgVars, cx, frontVars, ctxErr, ctxAtCall, pcMain, items, results, itemCh, mu, progress,
                 workers, fsVars, cbVars, ret>>

\* Compress: io.ReadAll(r) (JPEG), readAllWithLimit(r, opts.MaxFileSize) (PNG)
Read(w) ==
  /\ wk[w].pc = "read"
  /\ LET data == inodes[wk[w].inFile]
     IN wk' = [wk EXCEPT ![w] =
                 IF wk[w].proc = FormatPNG /\ TooLarge(data, ItemOf(w).Options.MaxFileSize)
                   THEN CodecFails(w, ErrFileTooLarge)
                 ELSE [@ EXCEPT !.pc = "decode", !.data = data]]
  /\ hist' = [hist EXCEPT ![wk[w].idx].fsOps = @ + 1]
  /\ UNCHANGED <<cfgVars, cx, frontVars, ctxErr, ctxAtCall, pcMain, items, results, itemCh, mu, progress,
                 workers, fsVars, cbVars, ret>>

\* Compress: (PNG: checkContext, then) image.Decode
Decode(w) ==
  /\ wk[w].pc = "decode"
  /\ wk' = [wk EXCEPT ![w] =
              IF wk[w].proc = FormatPNG /\ checkContext # Nil THEN CodecFails(w, checkContext)
              ELSE IF ~Decodable(wk[w].data) THEN CodecFails(w, ErrDecode)
              ELSE [@ EXCEPT !.pc = "encode"]]
  /\ UNCHANGED <<cfgVars, cx, frontVars, ctxErr, ctxAtCall, pcMain, items, results, itemCh, mu, progress,
                 workers, fsVars, cbVars, hist, ret>>

\* what the codec of format f writes for the image img under options o
Encoded(f, img, o) ==
  IF f = FormatJPEG THEN EncodeJPEG(img, JPEGQuality(o)) ELSE EncodePNG(img, o.Level)

\* Compress: (PNG: checkContext, then) encode and write to the destination.  The
\* write either completes or stops with an error after part of the bytes.
Encode(w, writeOK) ==
  /\ wk[w].pc = "encode"
  /\ LET out == Encoded(wk[w].proc, wk[w].data, ItemOf(w).Options)
         r == [OriginalSize |-> wk[w].data.len, CompressedSize |-> out.len,
               Format |-> wk[w].proc]
     IN IF wk[w].proc = FormatPNG /\ checkContext # Nil
          THEN /\ wk' = [wk EXCEPT ![w] = CodecFails(w, checkContext)]
               /\ UNCHANGED <<inodes, hist>>
          ELSE /\ hist' = [hist EXCEPT ![wk[w].idx].fsOps = @ + 1]
               /\ IF writeOK
                    THEN /\ inodes' = [inodes EXCEPT ![wk[w].outFile] = out]
                         /\ wk' = [wk EXCEPT ![w] = Leave(w, Success(ItemOf(w), r))]
                    ELSE /\ inodes' = [inodes EXCEPT ![wk[w].outFile] = Partial]
                         /\ wk' = [wk EXCEPT ![w] = CodecFails(w, ErrEncode)]
  /\ UNCHANGED <<cfgVars, cx, frontVars, ctxErr, ctxAtCall, pcMain, items, results, itemCh, mu, progress,
                 workers, files, dirs, cbVars, ret>>

\* variant: the cleanup leaves the file in place
RemoveNothing(fs, path) == fs

\* variant: the cleanup removes every file of the destination directory
RemoveSiblings(fs, path) == [p \in DOMAIN fs |-> IF Dir(p) = Dir(path) THEN NoFile ELSE fs[p]]

\* os.Remove(path): the path no longer names a file
Remove(fs, path) == [fs EXCEPT ![path] = NoFile]

\* processItem, codec error: outFile.Close, os.Remove(item.OutputPath), return
Cleanup(w) ==
  /\ wk[w].pc = "cleanup"
  /\ files' = Remove(files, ItemOf(w).OutputPath)
  /\ wk' = [wk EXCEPT ![w] = Leave(w, Failure(ItemOf(w), wk[w].err))]
  /\ hist' = [hist EXCEPT ![wk[w].idx].fsOps = @ + 1]
  /\ UNCHANGED <<cfgVars, cx, frontVars, ctxErr, ctxAtCall, pcMain, items, results, itemCh, mu, progress,
                 workers, inodes, dirs, cbVars, ret>>

-----------------------------------------------------------------------------
(* The rest of the loop body: record, count, report *)

\* variant: results appended in completion order
StoreAppend(rs, idx, r) ==
  LET free == {i \in 1..Len(rs) : rs[i] = ZeroResult}
  IN IF free = {} THEN rs
     ELSE [rs EXCEPT ![CHOOSE i \in free : \A j \in free : i <= j] = r]

\* variant: the result is written to every slot
StoreAll(rs, idx, r) == [i \in 1..Len(rs) |-> r]

\* variant: the results are filled from the end of the slice
StoreReversed(rs, idx, r) == [rs EXCEPT ![Len(rs) + 1 - idx] = r]

\* results[idx] = result
StoreAt(rs, idx, r) == [rs EXCEPT ![idx] = r]

\* the loop body after the select: results[idx] = result
Store(w) ==
  /\ wk[w].pc = "store"
  /\ results' = StoreAt(results, wk[w].idx, wk[w].result)
  /\ hist' = [hist EXCEPT ![wk[w].idx].stored = @ + 1]
  /\ wk' = [wk EXCEPT ![w].pc = "lock"]
  /\ UNCHANGED <<cfgVars, cx, frontVars, ctxErr, ctxAtCall, pcMain, items, itemCh, mu, progress, workers,
                 fsVars, cbVars, ret>>

\* mu.Lock()
Lock(w) ==
  /\ wk[w].pc = "lock"
  /\ mu = 0
  /\ mu' = w
  /\ wk' = [wk EXCEPT ![w].pc = "update"]
  /\ UNCHANGED <<cfgVars, cx, frontVars, ctxErr, ctxAtCall, pcMain, items, results, itemCh, progress,
                 workers, fsVars, cbVars, hist, ret>>

\* variant: every outcome is counted as completed
CountAllCompleted(pr, failed) == [pr EXCEPT !.Completed = @ + 1]

\* variant: every outcome is counted in both counters
CountBoth(pr, failed) == [pr EXCEPT !.Completed = @ + 1, !.Failed = @ + 1]

\* the counter update of the critical section
Count(pr, failed) ==
  IF failed THEN [pr EXCEPT !.Failed = @ + 1] ELSE [pr EXCEPT !.Completed = @ + 1]

\* variant: the snapshot is taken of the counters as they were before the update
SnapshotBefore(pr, failed, cur) == [pr EXCEPT !.Current = cur]

\* variant: the snapshot does not name the item
SnapshotNoCurrent(pr, failed, cur) == Count(pr, failed)

\* p := Progress{Total, Completed, Failed, Current: items[idx].InputPath}, taken
\* after the counter update
Snapshot(pr, failed, cur) == [Count(pr, failed) EXCEPT !.Current = cur]

\* variant: the critical section is left without unlocking
UnlockForgotten(m) == m

\* mu.Unlock()
Unlock(m) == 0

\* variant: the callback is taken to be nil
HasCallbackNever(cb) == FALSE

\* if cb != nil
HasCallback(cb) == cb

\* the critical section: count, take the snapshot p, read the callback; mu.Unlock()
Update(w) ==
  /\ wk[w].pc = "update"
  /\ mu = w
  /\ LET pr == Count(progress, wk[w].result.Error # Nil)
     IN /\ progress' = pr
        /\ wk' = [wk EXCEPT ![w] =
                    IF HasCallback(progressCallback)
                      THEN [@ EXCEPT !.pc = "callback", !.result = ZeroResult,
                                     !.p = Snapshot(progress, wk[w].result.Error # Nil,
                                                    ItemOf(w).InputPath)]
                      ELSE [IdleWorker EXCEPT !.pc = "recv"]]
  /\ mu' = Unlock(mu)
  /\ UNCHANGED <<cfgVars, cx, frontVars, ctxErr, ctxAtCall, pcMain, items, results, itemCh, workers,
                 fsVars, cbVars, hist, ret>>

\* cb(p): the callback is entered
CallbackEnter(w) ==
  /\ wk[w].pc = "callback"
  /\ cbCount' = cbCount + 1
  /\ lastCb' = wk[w].p
  /\ cbLog' = Append(cbLog, [idx |-> wk[w].idx, p |-> wk[w].p])
  /\ wk' = [wk EXCEPT ![w].pc = "incb"]
  /\ UNCHANGED <<cfgVars, cx, frontVars, ctxErr, ctxAtCall, pcMain, items, results, itemCh, mu, progress,
                 workers, fsVars, hist, ret>>

\* cb(p): the callback returns
CallbackReturn(w) ==
  /\ wk[w].pc = "incb"
  /\ wk' = [wk EXCEPT ![w] = [IdleWorker EXCEPT !.pc = "recv"]]
  /\ UNCHANGED <<cfgVars, cx, frontVars, ctxErr, ctxAtCall, pcMain, items, results, itemCh, mu, progress,
                 workers, fsVars, cbVars, hist, ret>>

-----------------------------------------------------------------------------
(* Specification *)

WorkerStep(w) ==
  \/ Recv(w)
  \/ Select(w)
  \/ Detect(w)
  \/ Open(w)
  \/ Mkdir(w)
  \/ Create(w)
  \/ CodecStart(w)
  \/ Read(w)
  \/ Decode(w)
  \/ \E ok \in BOOLEAN : Encode(w, ok)
  \/ Cleanup(w)
  \/ Store(w)
  \/ Lock(w)
  \/ Update(w)
  \/ CallbackEnter(w)
  \/ CallbackReturn(w)

Next ==
  \/ \E b \in Batches : Call(b)
  \/ Return
  \/ Cancel
  \/ Expire
  \/ \E w \in WorkerIds : WorkerStep(w)

Spec == Init /\ [][Next]_vars

\* Every started goroutine keeps being scheduled, and the caller too; codec calls
\* and callbacks return.  Nothing obliges the token to be cancelled.
FairSpec ==
  /\ Spec
  /\ WF_vars(Return)
  /\ \A w \in WorkerIds : WF_vars(WorkerStep(w))

-----------------------------------------------------------------------------
(* A codec called on its own: Compress and Convert of JPEGProcessor,           *)
(* PNGProcessor and WEBPProcessor, with any options, any source and a          *)
(* destination that may refuse a write                                         *)

FormatWEBP == 2
ErrTargetMismatch == "only supports conversion to"

Codecs == {FormatJPEG, FormatPNG, FormatWEBP}
Ops == {"Compress", "Convert"}

\* the sources handed to a codec
Sources ==
  {[kind |-> "jpeg", len |-> 2], [kind |-> "webp", len |-> 3], [kind |-> "png", len |-> 4],
   [kind |-> "garbage", len |-> 3]}

\* the options handed to a codec; Compress takes no target format
Qualities == {-10, 0, 80, 150}
Levels == {CompressionLow, CompressionMedium, CompressionHigh}
MaxFileSizes == {-1, 0, 2, MaxInt64}
CodecOptions(codec, op) ==
  [Quality : Qualities, Level : Levels, PreserveMetadata : BOOLEAN, MaxFileSize : MaxFileSizes,
   Format : IF op = "Convert" THEN Codecs ELSE {codec}]

\* Convert of PNGProcessor and WEBPProcessor: if opts.Format != FormatPNG / FormatWEBP
ChecksTarget(codec, op) == op = "Convert" /\ codec \in {FormatPNG, FormatWEBP}
\* the codecs that begin with opts.Validate()
Validates(codec) == codec \in {FormatPNG, FormatWEBP}
\* the codecs that read with readAllWithLimit(r, opts.MaxFileSize); JPEG: io.ReadAll(r)
Limits(codec) == codec \in {FormatPNG, FormatWEBP}
\* the codecs that call checkContext again after reading and after decoding
Rechecks(codec) == codec \in {FormatPNG, FormatWEBP}
\* the codecs that encode into a countingWriter; JPEG encodes into a buffer and copies it
Counts(codec) == codec \in {FormatPNG, FormatWEBP}

\* CompressionLevel.ToWebPQuality
ToWebPQuality(c) ==
  CASE c = CompressionLow -> 60
    [] c = CompressionMedium -> 75
    [] c = CompressionHigh -> 90
    [] OTHER -> 75

Clamp(q) == IF q < 1 THEN 1 ELSE IF q > 100 THEN 100 ELSE q

\* the quality WEBPProcessor hands to webp.Encode: Compress tests opts.Quality == 0
\* and clamps an override; Convert tests opts.Quality <= 0 and clamps the outcome
WebPQuality(op, o) ==
  IF op = "Compress"
    THEN IF o.Quality = 0 THEN ToWebPQuality(o.Level) ELSE Clamp(o.Quality)
    ELSE Clamp(IF o.Quality <= 0 THEN ToWebPQuality(o.Level) ELSE o.Quality)

\* the quality handed to the encoder (PNG has none)
CxQuality(codec, op, o) ==
  IF codec = FormatJPEG THEN JPEGQuality(o)
  ELSE IF codec = FormatWEBP THEN WebPQuality(op, o)
  ELSE 0

EncodeWEBP(img, quality) == [kind |-> "webp", len |-> 1 + (img.len * quality) \div 100]

\* what the codec writes for the image img
CxOutput(codec, op, img, o) ==
  IF codec = FormatJPEG THEN EncodeJPEG(img, JPEGQuality(o))
  ELSE IF codec = FormatWEBP THEN EncodeWEBP(img, WebPQuality(op, o))
  ELSE EncodePNG(img, o.Level)

\* bytes taken from the source: all of it, or at most maxSize + 1 through
\* io.LimitReader
ReadCount(codec, src, maxSize) ==
  IF Limits(codec) /\ maxSize > 0 /\ maxSize # MaxInt64
    THEN Min(src.len, maxSize + 1) ELSE src.len

\* variant: the counter keeps the count of the last Write only
CountWriteLast(n, k) == k

\* countingWriter.Write: cw.n += int64(n)
CountWrite(n, k) == n + k

batchVars ==
  <<cfgVars, ctxErr, ctxAtCall, pcMain, items, results, itemCh, mu, progress, workers, wk,
    fsVars, cbVars, hist, ret>>
engineVars == <<batchVars, frontVars>>

CxFail(e) == [cx EXCEPT !.pc = "done", !.err = e]

\* p.Compress(ctx, r, w, opts) / p.Convert(ctx, r, w, opts) is called
CxCall(codec, op, o, src) ==
  /\ pcMain = "idle"
  /\ cx.pc = "idle"
  /\ cx' = [IdleCodec EXCEPT !.pc = "entry", !.codec = codec, !.op = op, !.opts = o,
                             !.src = src, !.ctxAtCall = ctxErr]
  /\ UNCHANGED engineVars

\* the statements before the read: target check, opts.Validate, context check
CxEntry ==
  /\ cx.pc = "entry"
  /\ cx' = IF ChecksTarget(cx.codec, cx.op) /\ cx.opts.Format # cx.codec
             THEN CxFail(ErrTargetMismatch)
           ELSE IF Validates(cx.codec) /\ Validate(cx.opts) # Nil
             THEN CxFail(Validate(cx.opts))
           ELSE IF checkContext # Nil THEN CxFail(checkContext)
           ELSE [cx EXCEPT !.pc = "read"]
  /\ UNCHANGED engineVars

\* readAllWithLimit(r, opts.MaxFileSize) / io.ReadAll(r)
CxRead ==
  /\ cx.pc = "read"
  /\ LET n == ReadCount(cx.codec, cx.src, cx.opts.MaxFileSize)
     IN cx' = IF Limits(cx.codec) /\ TooLarge(cx.src, cx.opts.MaxFileSize)
                THEN [CxFail(ErrFileTooLarge) EXCEPT !.read = n]
              ELSE [cx EXCEPT !.pc = "decode", !.read = n, !.data = cx.src]
  /\ UNCHANGED engineVars

\* (checkContext, then) image.Decode
CxDecode ==
  /\ cx.pc = "decode"
  /\ cx' = [(IF Rechecks(cx.codec) /\ checkContext # Nil THEN CxFail(checkContext)
             ELSE IF ~Decodable(cx.data) THEN CxFail(ErrDecode)
             ELSE [cx EXCEPT !.pc = "encode"])
            EXCEPT !.ctxAtDecode = ctxErr]
  /\ UNCHANGED engineVars

\* (checkContext, then) the quality is resolved and the encoder started: into the
\* countingWriter, or (JPEG) into a buffer whose length is the CompressedSize
CxEncode ==
  /\ cx.pc = "encode"
  /\ LET out == CxOutput(cx.codec, cx.op, cx.data, cx.opts)
     IN cx' = [(IF Rechecks(cx.codec) /\ checkContext # Nil THEN CxFail(checkContext)
                ELSE [cx EXCEPT !.pc = "write",
                                !.quality = CxQuality(cx.codec, cx.op, cx.opts),
                                !.buf = out.len,
                                !.n = IF Counts(cx.codec) THEN 0 ELSE out.len])
               EXCEPT !.ctxAtEncode = ctxErr]
  /\ UNCHANGED engineVars

\* one Write of k bytes to the destination, which accepts a of them (a < k with
\* an error); the encoders write piecewise, io.Copy writes the buffer at once.
\* After the last Write the codec returns the Result.
CxWrite(k, a) ==
  /\ cx.pc = "write"
  /\ k \in 1..cx.buf
  /\ Counts(cx.codec) \/ k = cx.buf
  /\ a \in 0..k
  /\ LET c == [cx EXCEPT !.written = @ + a, !.writes = @ + 1, !.buf = @ - k,
                         !.n = IF Counts(cx.codec) THEN CountWrite(@, a) ELSE @]
     IN cx' = IF a < k THEN [c EXCEPT !.pc = "done", !.err = ErrEncode]
              ELSE IF c.buf = 0
                THEN [c EXCEPT !.pc = "done",
                               !.result = <<[OriginalSize |-> cx.data.len,
                                             CompressedSize |-> c.n,
                                             Format |-> cx.codec]>>]
              ELSE c
  /\ UNCHANGED engineVars

CodecInit == Init /\ optWorkers = <<>> /\ ~progressCallback

CodecNext ==
  \/ /\ cx.pc = "idle"
     /\ \E codec \in Codecs, op \in Ops, src \in Sources :
          \E o \in CodecOptions(codec, op) : CxCall(codec, op, o, src)
  \/ CxEntry
  \/ CxRead
  \/ CxDecode
  \/ CxEncode
  \/ \E k \in 1..6, a \in 0..6 : CxWrite(k, a)
  \/ Cancel

CodecSpec == CodecInit /\ [][CodecNext]_vars

-----------------------------------------------------------------------------
(* detectFormatFromPath called on its own, with paths made of a directory     *)
(* part, a stem and an extension                                               *)

DetectDirs == {<<>>, <<"/", "d", "/">>, <<"d", ".", "p", "n", "g", "/">>}
DetectStems == {<<>>, <<"a">>, <<"a", ".", "p", "n", "g">>, <<"A", ".", "W", "E", "B", "P">>}
DetectExts ==
  {<<>>, <<".", "j", "p", "g">>, <<".", "J", "P", "G">>, <<".", "j", "p", "e", "g">>,
   <<".", "J", "P", "E", "G">>, <<".", "J", "p", "e", "g">>, <<".", "p", "n", "g">>,
   <<".", "P", "N", "G">>, <<".", "p", "N", "g">>, <<".", "w", "e", "b", "p">>,
   <<".", "W", "E", "B", "P">>, <<".", "W", "e", "b", "P">>, <<".", "b", "m", "p">>,
   <<".", "g", "i", "f">>, <<".", "t", "x", "t">>, <<".">>, <<".", "j", "p", "g", "x">>,
   <<".", "j", "p">>, <<".", "p", "n", "g", "g">>, <<".", "w", "e", "b">>}
DetectPaths == {d \o st \o e : d \in DetectDirs, st \in DetectStems, e \in DetectExts}

\* format, err := detectFormatFromPath(path); a second call with the path of the
\* call before remembers what that call returned
DetectCall(path) ==
  /\ det.pc \in {"idle", "done"}
  /\ det' = [pc |-> "called", path |-> path, out |-> IdleDetect.out,
             prev |-> IF det.pc = "done" /\ det.path = path THEN <<det.out>> ELSE <<>>]
  /\ UNCHANGED <<batchVars, cx, rd, scan, cli, tui>>

DetectReturn ==
  /\ det.pc = "called"
  /\ det' = [det EXCEPT !.pc = "done", !.out = detectFormatFromPath(det.path)]
  /\ UNCHANGED <<batchVars, cx, rd, scan, cli, tui>>

DetectInit == Init /\ optWorkers = <<>> /\ ~progressCallback

DetectNext ==
  \/ \E path \in DetectPaths : DetectCall(path)
  \/ DetectReturn

DetectSpec == DetectInit /\ [][DetectNext]_vars

-----------------------------------------------------------------------------
(* ScanDirectory, and ScanDirectoryForConvert, over a small directory tree     *)

ErrScanAccess == "failed to access input directory"
ErrScanNotDir == "input path is not a directory"
ErrScanWalk == "failed to scan directory"

\* filepath.Join of two clean elements; an empty element is ignored
Join(a, b) == IF a = <<>> THEN b ELSE IF b = <<>> THEN a ELSE a \o <<Sep>> \o b

\* TRUE when targ lies below the directory base
Below(base, targ) ==
  /\ Len(targ) > Len(base) + 1
  /\ SubSeq(targ, 1, Len(base)) = base
  /\ targ[Len(base) + 1] = Sep

\* filepath.Rel(base, targ) for clean paths: "." for the base itself, the
\* remainder for a path below it, a path that climbs with ".." otherwise
Rel(base, targ) ==
  IF targ = base THEN <<Dot>>
  ELSE IF Below(base, targ) THEN SubSeq(targ, Len(base) + 2, Len(targ))
  ELSE <<Dot, Dot, Sep>> \o targ

\* strings.TrimSuffix(path, filepath.Ext(path))
TrimExt(path) == SubSeq(path, 1, Len(path) - Len(Ext(path)))

\* ImageFormat.Extension
Extension(f) ==
  CASE f = FormatJPEG -> <<".", "j", "p", "g">>
    [] f = FormatPNG -> <<".", "p", "n", "g">>
    [] OTHER -> <<>>

\* the input root of the model, a path that does not exist, the output roots
ScanRoot == <<"i">>
ScanMissing == <<"n">>
ScanOutputs == {<<"o">>, <<"o", "/", "p">>}

\* everything that may be below the root, in the order filepath.WalkDir visits
\* it (lexical within a directory); the directories always exist
WalkEntries ==
  <<[path |-> <<"i">>, isDir |-> TRUE],
    [path |-> <<"i", "/", "a", ".", "j", "p", "e", "g">>, isDir |-> FALSE],
    [path |-> <<"i", "/", "a", ".", "j", "p", "g">>, isDir |-> FALSE],
    [path |-> <<"i", "/", "b", ".", "p", "n", "g">>, isDir |-> FALSE],
    [path |-> <<"i", "/", "c", ".", "t", "x", "t">>, isDir |-> FALSE],
    [path |-> <<"i", "/", "e", ".", "w", "e", "b", "p">>, isDir |-> FALSE],
    [path |-> <<"i", "/", "s">>, isDir |-> TRUE],
    [path |-> <<"i", "/", "s", "/", "D", ".", "J", "P", "E", "G">>, isDir |-> FALSE],
    [path |-> <<"i", "/", "s", "/", "t", ".", "p", "n", "g">>, isDir |-> TRUE],
    [path |-> <<"i", "/", "s", "/", "t", ".", "p", "n", "g", "/", "g", ".", "j", "p", "e", "g">>, isDir |-> FALSE]>>

ScanFiles == {WalkEntries[i].path : i \in {k \in 1..Len(WalkEntries) : ~WalkEntries[k].isDir}}
\* the trees scanned: any set of the files
ScanTrees == SUBSET ScanFiles
\* the directory, if any, that cannot be read
ScanUnreadable == {{}} \cup {{d} : d \in {ScanRoot, <<"i", "/", "s">>}}
\* the roots handed to a scan: the root, a missing path, a regular file
ScanInputs == {ScanRoot, ScanMissing, <<"i", "/", "a", ".", "j", "p", "g">>}

\* the target format of ScanDirectoryForConvert; none for ScanDirectory
NoTarget == <<>>
ScanTargets == {NoTarget} \cup {<<f>> : f \in {FormatJPEG, FormatPNG, FormatWEBP}}

\* WithCompressOptions(opts) / WithConvertOptions(opts), or no option
CustomCompressOptions ==
  [Quality |-> 50, Level |-> CompressionLow, PreserveMetadata |-> FALSE, MaxFileSize |-> 0]
ConvertOptionsOf(format, o) ==
  [Quality |-> o.Quality, Level |-> o.Level, PreserveMetadata |-> o.PreserveMetadata,
   MaxFileSize |-> o.MaxFileSize, Format |-> format]
ScanOptions(target) ==
  {<<>>} \cup {<<IF target = NoTarget THEN CustomCompressOptions
                 ELSE ConvertOptionsOf(target[1], CustomCompressOptions)>>}

\* ScanDirectoryForConvert without an option: the defaults, for the target
DefaultConvertOptions(format) == ConvertOptionsOf(format, DefaultCompressOptions)

\* cfg.opts after the options were applied
ScanConfig(target, opts) ==
  IF opts # <<>> THEN opts[1]
  ELSE IF target = NoTarget THEN DefaultCompressOptions
  ELSE DefaultConvertOptions(target[1])

\* ScanDirectory(inputDir, outputDir, opts...) or, with a target,
\* ScanDirectoryForConvert(inputDir, outputDir, targetFormat, opts...) is called
\* on the tree
ScanCall(inputDir, outputDir, target, opts, tree, unreadable) ==
  /\ scan.pc = "idle"
  /\ scan' = [IdleScan EXCEPT !.pc = "stat", !.inputDir = inputDir, !.outputDir = outputDir,
                              !.target = target, !.opts = opts, !.tree = tree,
                              !.unreadable = unreadable]
  /\ UNCHANGED <<batchVars, cx, rd, det, cli, tui>>

ScanFail(e) == [scan EXCEPT !.pc = "done", !.items = <<>>, !.queue = <<>>, !.err = e]

\* info, err := os.Stat(inputDir); if err != nil ...; if !info.IsDir() ...
StatError(inputDir, tree) ==
  IF inputDir = ScanRoot THEN Nil
  ELSE IF inputDir \in tree THEN ErrScanNotDir
  ELSE ErrScanAccess

\* what filepath.WalkDir(inputDir, fn) will visit
WalkQueue(tree) == SelectSeq(WalkEntries, LAMBDA e : e.isDir \/ e.path \in tree)

ScanStat ==
  /\ scan.pc = "stat"
  /\ scan' = IF StatError(scan.inputDir, scan.tree) # Nil
               THEN ScanFail(StatError(scan.inputDir, scan.tree))
             ELSE [scan EXCEPT !.pc = "walk", !.queue = WalkQueue(scan.tree)]
  /\ UNCHANGED <<batchVars, cx, rd, det, cli, tui>>

\* ScanDirectoryForConvert: a file already in the target format is skipped
SameFormat(format, target) == target # NoTarget /\ format = target[1]

\* ScanDirectoryForConvert: the extension of relPath becomes the target's, as in
\* defaultConvertOutputPath
ConvertOutputPath(outputDir, relPath, format) ==
  Join(outputDir, TrimExt(relPath) \o Extension(format))

\* outPath := filepath.Join(outputDir, relPath)
OutputPath(outputDir, relPath, target) ==
  IF target = NoTarget THEN Join(outputDir, relPath)
  ELSE ConvertOutputPath(outputDir, relPath, target[1])

\* variant: an error of the walk is dropped and the walk goes on
WalkErrorIgnored(e, unreadable) == FALSE

\* the callback's err != nil: WalkDir could not read the directory e
WalkError(e, unreadable) == e.isDir /\ e.path \in unreadable

\* one call of the WalkDir callback (for a directory: the call for its entry,
\* and the call with the error of reading it, if any)
ScanVisit ==
  /\ scan.pc = "walk"
  /\ scan.queue # <<>>
  /\ LET e == Head(scan.queue)
         cfgOpts == ScanConfig(scan.target, scan.opts)
         fmt == detectFormatFromPath(e.path)
         relPath == Rel(scan.inputDir, e.path)
         next == [scan EXCEPT !.queue = Tail(@)]
     IN scan' = IF WalkError(e, scan.unreadable) THEN ScanFail(ErrScanWalk)
                ELSE IF e.isDir THEN next
                ELSE IF fmt.err # Nil THEN next
                ELSE IF SameFormat(fmt.format, scan.target) THEN next
                ELSE [next EXCEPT !.items =
                        Append(@, [InputPath |-> e.path,
                                   OutputPath |-> OutputPath(scan.outputDir, relPath, scan.target),
                                   Options |-> cfgOpts])]
  /\ UNCHANGED <<batchVars, cx, rd, det, cli, tui>>

\* the walk is over: return items, nil
ScanReturn ==
  /\ scan.pc = "walk"
  /\ scan.queue = <<>>
  /\ scan' = [scan EXCEPT !.pc = "done"]
  /\ UNCHANGED <<batchVars, cx, rd, det, cli, tui>>

ScanInit == Init /\ optWorkers = <<>> /\ ~progressCallback

ScanNext ==
  \/ /\ scan.pc = "idle"
     /\ \E inputDir \in ScanInputs, outputDir \in ScanOutputs, target \in ScanTargets,
           tree \in ScanTrees, unreadable \in ScanUnreadable :
          \E opts \in ScanOptions(target) :
            ScanCall(inputDir, outputDir, target, opts, tree, unreadable)
  \/ ScanStat
  \/ ScanVisit
  \/ ScanReturn

ScanSpec == ScanInit /\ [][ScanNext]_vars

-----------------------------------------------------------------------------
(* compressDirectoryWithText: the text-mode directory command around          *)
(* ProcessBatch                                                                *)

ErrBatchFailed == "batch processing failed"
ErrItemsFailed == "images failed to compress"

\* BatchResult.IsSuccess
IsSuccess(r) == r.Error = Nil

\* for _, res := range results: successCount++ or failCount++
RECURSIVE CountResults(_)
CountResults(rs) ==
  IF rs = <<>> THEN [successCount |-> 0, failCount |-> 0]
  ELSE LET c == CountResults(Tail(rs))
       IN IF IsSuccess(Head(rs)) THEN [c EXCEPT !.successCount = @ + 1]
          ELSE [c EXCEPT !.failCount = @ + 1]

\* variant: the command reports failures but returns no error
SummaryErrorNever(failCount) == Nil

\* if failCount > 0 { return fmt.Errorf(...) }; return nil
SummaryError(failCount) == IF failCount > 0 THEN ErrItemsFailed ELSE Nil

\* compressDirectoryWithText after bp.ProcessBatch has returned: the error
\* check, the counting loop, the summary line and the return
Summary ==
  /\ pcMain = "returned"
  /\ cli.pc = "idle"
  /\ LET c == CountResults(ret.results)
     IN cli' = IF ret.err # Nil THEN [cli EXCEPT !.pc = "done", !.err = ErrBatchFailed]
               ELSE [pc |-> "done", successCount |-> c.successCount,
                     failCount |-> c.failCount,
                     summary |-> <<c.successCount, c.failCount>>,
                     err |-> SummaryError(c.failCount)]
  /\ UNCHANGED <<batchVars, cx, rd, det, scan, tui>>

\* processor.NewDefaultBatchProcessor(processor.WithProgressCallback(...))
CliInit == Init /\ optWorkers = <<>> /\ progressCallback

CliNext == Next \/ Summary

CliSpec == CliInit /\ [][CliNext]_vars

-----------------------------------------------------------------------------
(* compressDirectoryWithTUI: the Bubble Tea program, its Model and the         *)
(* messages the batch goroutine sends to it                                    *)

\* the results ProcessBatch hands to the goroutine: each a success or a failure
TuiResults ==
  UNION {[1..n -> {Success(ZeroItem, [OriginalSize |-> 4, CompressedSize |-> 2,
                                      Format |-> FormatJPEG]),
                   Failure(ZeroItem, ErrDecode)}] : n \in 1..MaxFiles}

\* the snapshots a ProgressMsg may carry for a batch of n files
TuiProgress(n) ==
  {[Total |-> n, Completed |-> c, Failed |-> f, Current |-> <<>>] :
     c \in 0..n, f \in 0..n}

\* tui.BatchCompleteMsg{Results: results}: the sender sets Results only, so the
\* counts Update reads from the message have their zero value
BatchCompleteMsg(rs) == [Results |-> rs, SuccessCount |-> 0, FailCount |-> 0]

\* m := tui.NewModel(); p := tea.NewProgram(m); the goroutine starts and
\* ProcessBatch will return results
TuiRun(rs) ==
  /\ tui.pc = "idle"
  /\ tui' = [IdleTui EXCEPT !.pc = "running", !.results = rs]
  /\ UNCHANGED <<batchVars, cx, rd, det, scan, cli>>

\* variant: a ProgressMsg that counts every file ends the batch
StateAfterLastProgress(m, kind, p) ==
  CASE kind = "BatchStartMsg" -> "StateProcessing"
    [] kind = "BatchCompleteMsg" -> "StateCompleted"
    [] kind = "BatchErrorMsg" -> "StateError"
    [] kind = "ProgressMsg" /\ p.Completed + p.Failed >= m.totalFiles -> "StateCompleted"
    [] OTHER -> m.state

\* m.state after Update has handled a message of the kind (p: the snapshot of
\* a ProgressMsg): three cases assign it, the others leave it
StateAfter(m, kind, p) ==
  CASE kind = "BatchStartMsg" -> "StateProcessing"
    [] kind = "BatchCompleteMsg" -> "StateCompleted"
    [] kind = "BatchErrorMsg" -> "StateError"
    [] OTHER -> m.state

\* Update, case BatchStartMsg, sent first by the goroutine
UpdateBatchStart ==
  /\ tui.pc = "running"
  /\ tui.sent = "none"
  /\ tui' = [tui EXCEPT !.sent = "start", !.last = "BatchStartMsg",
                        !.m = [@ EXCEPT !.state = StateAfter(tui.m, "BatchStartMsg", ZeroProgress),
                                        !.totalFiles = Len(tui.results)]]
  /\ UNCHANGED <<batchVars, cx, rd, det, scan, cli>>

\* Update, case ProgressMsg, sent by the progress callback
UpdateProgress(p) ==
  /\ tui.pc = "running"
  /\ tui.sent = "start"
  /\ tui' = [tui EXCEPT !.last = "ProgressMsg", !.p = p,
                        !.m = [@ EXCEPT !.state = StateAfter(tui.m, "ProgressMsg", p),
                                        !.completed = p.Completed, !.failed = p.Failed,
                                        !.currentFile = p.Current,
                                        !.progress.target =
                                          IF tui.m.totalFiles > 0
                                            THEN <<p.Completed + p.Failed, tui.m.totalFiles>>
                                          ELSE <<0, 1>>]]
  /\ UNCHANGED <<batchVars, cx, rd, det, scan, cli>>

\* the BatchResultInfo entries Update keeps: one per result with an error
RECURSIVE FailedInfos(_)
FailedInfos(rs) ==
  IF rs = <<>> THEN <<>>
  ELSE IF Head(rs).Error # Nil
    THEN <<[InputPath |-> Head(rs).Item.InputPath, Error |-> Head(rs).Error]>>
           \o FailedInfos(Tail(rs))
  ELSE FailedInfos(Tail(rs))

\* Update, case BatchCompleteMsg, sent once ProcessBatch has returned
UpdateBatchComplete ==
  /\ tui.pc = "running"
  /\ tui.sent = "start"
  /\ LET msg == BatchCompleteMsg(tui.results)
     IN tui' = [tui EXCEPT !.sent = "complete", !.last = "BatchCompleteMsg",
                           !.m = [@ EXCEPT !.state = StateAfter(tui.m, "BatchCompleteMsg", ZeroProgress),
                                           !.completed = msg.SuccessCount,
                                           !.failed = msg.FailCount,
                                           !.results = FailedInfos(msg.Results),
                                           !.progress.target = <<1, 1>>]]
  /\ UNCHANGED <<batchVars, cx, rd, det, scan, cli>>

\* Update, case tea.KeyMsg "q": tea.Quit; p.Run returns the final model and
\* compressDirectoryWithTUI returns an error if fm.Err() != nil or fm.Failed() > 0
UpdateQuit ==
  /\ tui.pc = "running"
  /\ tui' = [tui EXCEPT !.pc = "quit", !.last = "KeyMsg",
                        !.err = IF tui.m.err # Nil THEN ErrBatchFailed
                                ELSE IF tui.m.failed > 0 THEN ErrItemsFailed
                                ELSE Nil]
  /\ UNCHANGED <<batchVars, cx, rd, det, scan, cli>>

\* Update, case BatchErrorMsg, sent in place of BatchCompleteMsg when
\* ProcessBatch returns an error
UpdateBatchError(e) ==
  /\ tui.pc = "running"
  /\ tui.sent = "start"
  /\ tui' = [tui EXCEPT !.sent = "error", !.last = "BatchErrorMsg",
                        !.m = [@ EXCEPT !.state = StateAfter(tui.m, "BatchErrorMsg", ZeroProgress),
                                        !.err = e]]
  /\ UNCHANGED <<batchVars, cx, rd, det, scan, cli>>

\* Update, case tea.KeyMsg with a key other than "q", "ctrl+c", "esc": the
\* switch has no case for it and Update returns m, nil
UpdateKey ==
  /\ tui.pc = "running"
  /\ tui' = [tui EXCEPT !.last = "KeyMsg",
                        !.m = [@ EXCEPT !.state = StateAfter(tui.m, "KeyMsg", ZeroProgress)]]
  /\ UNCHANGED <<batchVars, cx, rd, det, scan, cli>>

\* Update, case tea.WindowSizeMsg: m.progress.Width = msg.Width - 8, at least 20
UpdateWindowSize(width) ==
  /\ tui.pc = "running"
  /\ tui' = [tui EXCEPT !.last = "WindowSizeMsg",
                        !.m = [@ EXCEPT !.state = StateAfter(tui.m, "WindowSizeMsg", ZeroProgress),
                                        !.progress.Width =
                                          IF width - 8 < 20 THEN 20 ELSE width - 8]]
  /\ UNCHANGED <<batchVars, cx, rd, det, scan, cli>>

\* Update, case progress.FrameMsg: m.progress.Update(msg) moves the bar towards
\* the percentage set last
UpdateFrame ==
  /\ tui.pc = "running"
  /\ tui' = [tui EXCEPT !.last = "FrameMsg",
                        !.m = [@ EXCEPT !.state = StateAfter(tui.m, "FrameMsg", ZeroProgress),
                                        !.progress.shown = tui.m.progress.target]]
  /\ UNCHANGED <<batchVars, cx, rd, det, scan, cli>>

\* the widths a terminal reports
WindowWidths == {10, 48}

TuiInit == Init /\ optWorkers = <<>> /\ progressCallback

TuiNext ==
  \/ \E rs \in TuiResults : TuiRun(rs)
  \/ UpdateBatchStart
  \/ \E p \in TuiProgress(Len(tui.results)) : UpdateProgress(p)
  \/ UpdateBatchComplete
  \/ \E e \in {ErrCanceled, ErrDeadline} : UpdateBatchError(e)
  \/ UpdateKey
  \/ \E width \in WindowWidths : UpdateWindowSize(width)
  \/ UpdateFrame
  \/ UpdateQuit

TuiSpec == TuiInit /\ [][TuiNext]_vars

-----------------------------------------------------------------------------
(* readAllWithLimit called on its own, with any limit and a source that may    *)
(* fail.  int64 is scaled down to 8 bits: MaxInt64 is 127 and sums wrap.        *)

ErrReadSource == "unexpected EOF"

\* a sum of int64 values, wrapped around as the machine does
Int64(x) == ((x + MaxInt64 + 1) % (2 * (MaxInt64 + 1))) - (MaxInt64 + 1)

\* the sources: the bytes 1..n, and the number of bytes after which Read fails
\* (-1: never, the source ends with io.EOF)
ReaderSources ==
  UNION {{[bytes |-> [i \in 1..n |-> i], errAt |-> e] : e \in -1..n} : n \in 0..MaxLen}

\* the limits: the smallest int64, negative, zero, around the source lengths,
\* the two largest
ReaderLimits == {Int64(MaxInt64 + 1), -1, 0} \cup 1..(MaxLen + 1) \cup {MaxInt64 - 1, MaxInt64}

\* io.ReadAll(r): everything up to io.EOF, or what was read and the error
ReadAllSource(src) ==
  IF src.errAt >= 0 THEN [data |-> SubSeq(src.bytes, 1, src.errAt), err |-> ErrReadSource]
  ELSE [data |-> src.bytes, err |-> Nil]

\* io.ReadAll(io.LimitReader(r, n)): a LimitedReader with N <= 0 returns io.EOF
\* at once, after n bytes it returns io.EOF without reading further
ReadAllLimited(src, n) ==
  LET all == ReadAllSource(src)
  IN IF n <= 0 THEN [data |-> <<>>, err |-> Nil]
     ELSE IF Len(all.data) >= n THEN [data |-> SubSeq(all.data, 1, n), err |-> Nil]
     ELSE all

\* variant: only maxSize <= 0 means no limit
UnlimitedNoGuard(maxSize) == maxSize <= 0

\* if maxSize <= 0 { return io.ReadAll(r) }; if maxSize == math.MaxInt64 { return
\* io.ReadAll(r) }
Unlimited(maxSize) == maxSize <= 0 \/ maxSize = MaxInt64

\* readAllWithLimit(r, maxSize) is called
RdCall(src, maxSize) ==
  /\ rd.pc = "idle"
  /\ rd' = [IdleReader EXCEPT !.pc = "entry", !.src = src, !.maxSize = maxSize]
  /\ UNCHANGED <<batchVars, cx, det, scan, cli, tui>>

\* the two guards, then limited := io.LimitReader(r, maxSize+1)
RdEntry ==
  /\ rd.pc = "entry"
  /\ rd' = IF Unlimited(rd.maxSize)
             THEN [rd EXCEPT !.pc = "done", !.data = <<ReadAllSource(rd.src).data>>,
                             !.err = ReadAllSource(rd.src).err]
           ELSE [rd EXCEPT !.pc = "limited", !.limit = Int64(rd.maxSize + 1)]
  /\ UNCHANGED <<batchVars, cx, det, scan, cli, tui>>

\* data, err := io.ReadAll(limited), the error check, the size check, the return
RdRead ==
  /\ rd.pc = "limited"
  /\ LET got == ReadAllLimited(rd.src, rd.limit)
     IN rd' = IF got.err # Nil THEN [rd EXCEPT !.pc = "done", !.data = <<>>, !.err = got.err]
              ELSE IF Len(got.data) > rd.maxSize
                THEN [rd EXCEPT !.pc = "done", !.data = <<>>, !.err = ErrFileTooLarge]
              ELSE [rd EXCEPT !.pc = "done", !.data = <<got.data>>, !.err = Nil]
  /\ UNCHANGED <<batchVars, cx, det, scan, cli, tui>>

ReaderInit == Init /\ optWorkers = <<>> /\ ~progressCallback

ReaderNext ==
  \/ /\ rd.pc = "idle"
     /\ \E src \in ReaderSources, maxSize \in ReaderLimits : RdCall(src, maxSize)
  \/ RdEntry
  \/ RdRead

ReaderSpec == ReaderInit /\ [][ReaderNext]_vars

-----------------------------------------------------------------------------
(* Properties of ProcessBatch *)

Returned == pcMain = "returned"
Indices == 1..Len(items)
Failed(r) == r.Error # Nil
Succeeded(r) == r.Error = Nil /\ r.Result # NilResult
FileAt(p) == files[p] # NoFile

\* C1: the returned slice has one result per item, and results[i].Item is
\* items[i] for every i, whatever the order in which the workers finished.
C1_ResultsInInputOrder ==
  Returned =>
    /\ Len(ret.results) = Len(items)
    /\ \A i \in Indices : ret.results[i].Item = items[i]

\* C1 witness: two workers, two different items, and the second item was
\* reported to the callback before the first.
C1_Witness ==
  /\ Returned
  /\ Len(items) = 2
  /\ Cardinality(workers) = 2
  /\ items[1] # items[2]
  /\ cbCount = 2
  /\ lastCb.Current = items[1].InputPath
  /\ lastCb.Current # items[2].InputPath

\* C2: every returned BatchResult has exactly one of Result and Error.
C2_ExactlyOneOfResultAndError ==
  Returned =>
    \A i \in 1..Len(ret.results) :
      (ret.results[i].Result = NilResult) # (ret.results[i].Error = Nil)

\* C2 witness: a returned batch holding a success, a failure of processItem
\* before the codec and a result made by the cancellation branch or the codec.
C2_Witness ==
  /\ Returned
  /\ \E i \in Indices : Succeeded(ret.results[i])
  /\ \E i \in Indices : ret.results[i].Error \in {ErrOpen, ErrMkdir, ErrCreate, ErrUnsupportedExt}

\* C3: every index is received by exactly one worker and stored exactly once;
\* no two workers hold the same index; nothing is taken a second time.
C3_EachItemExactlyOnce ==
  /\ \A i \in 1..Len(hist) : hist[i].taken <= 1 /\ hist[i].stored <= hist[i].taken
  /\ \A v, w \in workers :
       (v # w /\ wk[v].idx # 0 /\ wk[w].idx # 0) => wk[v].idx # wk[w].idx
  /\ Returned => \A i \in 1..Len(hist) : hist[i].taken = 1 /\ hist[i].stored = 1

\* C3 witness: two workers, two items, the first of them failed, all stored.
C3_Witness ==
  /\ Returned
  /\ Cardinality(workers) = 2
  /\ Len(items) = 2
  /\ Failed(ret.results[1])
  /\ \A i \in Indices : hist[i].stored = 1

\* C4: the error ProcessBatch returns is nil, whatever happened to the items.
C4_CallErrorIsNil == Returned => ret.err = Nil

\* C4 witness: a returned batch in which every item failed, one of them by
\* cancellation.
C4_Witness ==
  /\ Returned
  /\ Len(items) = 2
  /\ \A i \in Indices : Failed(ret.results[i])
  /\ \E i \in Indices : ret.results[i].Error \in {ErrCanceled, ErrDeadline}

\* C5: after the return no failed item has left the file it created: the file
\* item i created is no longer in the file system.
C5_FailedItemLeavesNoFile ==
  Returned =>
    \A i \in Indices :
      Failed(ret.results[i]) => \A p \in DOMAIN files : files[p] # NewInode(i)

\* C5 witness: an item failed inside the codec after its destination had been
\* created and partly written.
C5_Witness ==
  /\ Returned
  /\ \E i \in Indices :
       /\ ret.results[i].Error = ErrEncode
       /\ NewInode(i) \in DOMAIN inodes
       /\ inodes[NewInode(i)] = Partial

DistinctOutputs ==
  \A i, j \in Indices : i # j => items[i].OutputPath # items[j].OutputPath

\* C6 as stated: after the return the output file of every successful item
\* exists, whatever the other items of the batch did.
C6_SuccessOutputExists ==
  Returned => \A i \in Indices : Succeeded(ret.results[i]) => FileAt(items[i].OutputPath)

\* C6 amended: the same for batches whose output paths are pairwise distinct;
\* and in the batch {good, corrupt} the corrupt item fails, its output does not
\* exist, and the output of good exists whenever good succeeded.
C6_SuccessOutputExistsDistinct ==
  Returned =>
    /\ DistinctOutputs =>
         \A i \in Indices : Succeeded(ret.results[i]) => FileAt(items[i].OutputPath)
    /\ \A i, j \in Indices :
         (Len(items) = 2 /\ items[i] = ItemGood /\ items[j] = ItemCorrupt) =>
           /\ Failed(ret.results[j])
           /\ ~FileAt(ItemCorrupt.OutputPath)
           /\ Succeeded(ret.results[i]) => FileAt(ItemGood.OutputPath)

\* C6 witness: {good, corrupt} on two workers: good succeeded and its file is
\* there, corrupt had created its file and failed, and that file is gone.
C6_Witness ==
  /\ Returned
  /\ items = <<ItemGood, ItemCorrupt>>
  /\ Cardinality(workers) = 2
  /\ Succeeded(ret.results[1])
  /\ ret.results[2].Error = ErrDecode
  /\ FileAt(ItemGood.OutputPath)
  /\ NewInode(2) \in DOMAIN inodes
  /\ ~FileAt(ItemCorrupt.OutputPath)

\* C7: with a token already cancelled or expired at the call, every result is
\* the token's error without a Result, no codec was called and nothing of the
\* file system was read, created or changed for any item.
C7_CancelledBeforeCall ==
  (Returned /\ ctxAtCall # Nil) =>
    /\ \A i \in Indices :
         /\ ret.results[i].Error = ctxAtCall
         /\ ret.results[i].Result = NilResult
         /\ hist[i].codec = 0
         /\ hist[i].fsOps = 0
    /\ \A p \in AllPaths : files[p] = (IF p \in DOMAIN InitFiles THEN InitFiles[p] ELSE NoFile)
    /\ inodes = InitInodes
    /\ dirs = InitDirs

\* C7 witness: a batch of two items returned under a token that had expired
\* before the call.
C7_Witness ==
  /\ Returned
  /\ ctxAtCall = ErrDeadline
  /\ Len(items) = 2
  /\ items[1] = ItemGood

\* the steps C8 speaks of: a stored result never changes, an item received after
\* the cancellation ends as the cancellation failure, every item has a result at
\* the return; FileKept says whether the output of a recorded success survives
\* the step
C8_Step(fileKept) ==
  /\ \A i \in 1..Len(hist) : hist[i].stored = 1 => results'[i] = results[i]
  /\ \A i \in 1..Len(hist') :
       (hist'[i].late /\ hist'[i].stored = 1) =>
         results'[i] = [Item |-> items'[i], Result |-> NilResult, Error |-> ctxErr']
  /\ pcMain' = "returned" => \A i \in 1..Len(hist') : hist'[i].stored = 1
  /\ fileKept

\* the output file of a recorded success is still there after a step taken under
\* a cancelled token
C8_FileKept ==
  ctxErr # Nil =>
    \A i \in 1..Len(hist) :
      (hist[i].stored = 1 /\ Succeeded(results[i]) /\ FileAt(items[i].OutputPath)) =>
        files'[items[i].OutputPath] # NoFile

\* C8 as stated: once the token is cancelled during a batch, finished items
\* keep their result and their output file, items received afterwards fail with
\* the cancellation error, and the queue is drained.
C8_CancelDuringBatch == [][C8_Step(C8_FileKept)]_vars

\* C8 amended: the output file is kept when no other item of the batch has the
\* same output path.
C8_CancelDuringBatchDistinct == [][C8_Step(DistinctOutputs => C8_FileKept)]_vars

\* C8 witness: the token was cancelled during the batch; the first item had
\* succeeded and kept result and file, the second was received afterwards and
\* carries the cancellation error.
C8_Witness ==
  /\ Returned
  /\ ctxAtCall = Nil
  /\ ctxErr = ErrCanceled
  /\ Len(items) = 2
  /\ Succeeded(ret.results[1])
  /\ FileAt(items[1].OutputPath)
  /\ hist[2].late
  /\ ret.results[2].Error = ErrCanceled

\* a worker that holds an item
Busy(w) == wk[w].pc \notin {"off", "recv", "done"}

\* C9: the constructor leaves maxWorkers >= 1 (1 for WithMaxWorkers(0) and
\* WithMaxWorkers(-1)); ProcessBatch starts min(maxWorkers, len(items)) workers
\* and never more than that many items are in work at once.
C9_WorkerBound ==
  LET cap == IF maxWorkers < Len(items) THEN maxWorkers ELSE Len(items)
  IN /\ maxWorkers >= 1
     /\ (optWorkers # <<>> /\ optWorkers[1] <= 0) => maxWorkers = 1
     /\ pcMain # "idle" =>
          /\ Cardinality(workers) = cap
          /\ \A w \in WorkerIds : Busy(w) => w \in workers
          /\ Cardinality({w \in WorkerIds : Busy(w)}) <= cap

\* C9 witness: two workers configured, two items, both in work at once.
C9_Witness ==
  /\ maxWorkers = 2
  /\ Len(items) = 2
  /\ Cardinality({w \in WorkerIds : Busy(w)}) = 2

\* C10: under fair scheduling a call that has started its workers returns.
C10_Terminates == (pcMain = "wait") ~> Returned

\* C10 witness: a batch on two workers has returned after both items went
\* through the critical section.
C10_Witness ==
  /\ Returned
  /\ Cardinality(workers) = 2
  /\ Len(items) = 2
  /\ progress.Completed + progress.Failed = 2
  /\ mu = 0

-----------------------------------------------------------------------------
(* Progress counters and the progress callback *)

\* C11: at the return Completed + Failed = Total = len(items), Completed is the
\* number of results without Error and Failed the number of results with one.
C11_CountersAtReturn ==
  Returned =>
    /\ progress.Completed + progress.Failed = progress.Total
    /\ progress.Total = Len(items)
    /\ progress.Completed = Cardinality({i \in Indices : ret.results[i].Error = Nil})
    /\ progress.Failed = Cardinality({i \in Indices : ret.results[i].Error # Nil})

\* C11 witness: a returned batch of two with one success and one failure.
C11_Witness ==
  /\ Returned
  /\ Len(items) = 2
  /\ progress.Completed = 1
  /\ progress.Failed = 1

\* the snapshots the callback has been invoked with
Finished(p) == p.Completed + p.Failed
CbSums == {Finished(cbLog[k].p) : k \in 1..Len(cbLog)}

InCallback == {w \in WorkerIds : wk[w].pc = "incb"}

C14_Step ==
  /\ cbCount' = Len(cbLog')
  /\ \A k \in 1..Len(cbLog') :
       /\ hist'[cbLog'[k].idx].stored = 1
       /\ cbLog'[k].p.Total = Len(items')
       /\ cbLog'[k].p.Current = items'[cbLog'[k].idx].InputPath
       /\ \A j \in 1..Len(cbLog') : j # k => cbLog'[j].idx # cbLog'[k].idx
  /\ pcMain' = "returned" => cbCount' = (IF progressCallback THEN Len(items') ELSE 0)
  /\ cbLog' # cbLog => UNCHANGED <<results, progress, itemCh, mu, files, inodes, dirs, hist>>

C14_CallbackOncePerItem == [][C14_Step]_vars

\* C14 witness: three kinds of outcome reported: a batch of two returned with
\* two invocations, one for a success and one for a cancellation failure.
C14_Witness ==
  /\ Returned
  /\ cbCount = 2
  /\ Succeeded(ret.results[1])
  /\ ret.results[2].Error = ErrCanceled
  /\ \E k \in 1..2 : cbLog[k].idx = 2 /\ cbLog[k].p.Failed >= 1

\* the steps in which worker w reads or writes the counters / writes a result slot
TouchesCounters(w) == wk[w].pc = "update" /\ wk'[w].pc # "update"
TouchesResults(w) == wk[w].pc = "store" /\ wk'[w].pc # "store"

\* the mutex is held only inside the critical section: never during file or
\* codec I/O, never during the callback
ShortHeld == \A w \in WorkerIds : mu = w => wk[w].pc = "update"

\* C15 as stated: counters and result slice are touched only by the holder of
\* the mutex, and the mutex is never held across I/O.
C15_Step ==
  /\ \A w \in WorkerIds : (TouchesCounters(w) \/ TouchesResults(w)) => mu = w
  /\ ShortHeld

C15_AllSharedStateUnderLock == [][C15_Step]_vars

\* C15 amended: the counters are touched only by the holder of the mutex; a
\* result slot is written outside it, by the one worker holding that index and
\* only that slot, and the slice is read by the caller after every worker has
\* left; the mutex is never held across I/O or the callback.
C15_StepAmended ==
  /\ \A w \in WorkerIds : TouchesCounters(w) => mu = w
  /\ progress' # progress => (pcMain = "idle" \/ \E w \in WorkerIds : TouchesCounters(w))
  /\ \A w \in WorkerIds :
       TouchesResults(w) =>
         /\ \A i \in 1..Len(results) : i # wk[w].idx => results'[i] = results[i]
         /\ \A v \in WorkerIds : (v # w /\ wk[v].idx # 0) => wk[v].idx # wk[w].idx
  /\ (pcMain = "wait" /\ pcMain' = "returned") => \A w \in workers : wk[w].pc = "done"
  /\ ShortHeld

C15_CountersUnderLock == [][C15_StepAmended]_vars

\* C15 witness: one worker is inside the codec, writing its destination, while
\* another holds the mutex and records its outcome.
C15_Witness ==
  \E v, w \in WorkerIds :
    /\ v # w
    /\ wk[v].pc = "encode"
    /\ mu = w
    /\ wk[w].pc = "update"

-----------------------------------------------------------------------------
(* Properties of the codecs *)

CxDone == cx.pc = "done"
\* the encoder has been handed the image and a quality
EncoderCalled == cx.pc = "write" \/ cx.writes > 0

\* C16: whatever the codec and the operation, options that Validate rejects are
\* rejected before anything is read or written: PreserveMetadata with
\* ErrPreserveMetadataNotSupported, a negative MaxFileSize with an error.
C16_OptionsValidatedFirst ==
  (cx.pc # "idle" /\ Validate(cx.opts) # Nil) =>
    /\ cx.read = 0
    /\ cx.written = 0
    /\ cx.pc \in {"entry", "done"}
    /\ CxDone =>
         /\ cx.err # Nil
         /\ cx.opts.PreserveMetadata => cx.err = ErrPreserveMetadataNotSupported

\* C17: whatever the codec and the operation, a token cancelled before the call
\* lets nothing be read, and a token found cancelled when decoding or encoding
\* is about to start ends the call with the token's error and nothing written.
C17_ContextCheckedBeforeReadAndEncode ==
  /\ (cx.pc # "idle" /\ cx.ctxAtCall # Nil) => cx.read = 0
  /\ (CxDone /\ cx.ctxAtDecode # Nil) => (cx.err = cx.ctxAtDecode /\ cx.written = 0)
  /\ cx.ctxAtEncode # Nil => (CxDone /\ cx.err = cx.ctxAtEncode /\ cx.written = 0)

\* C18: whatever the codec and the operation, with MaxFileSize = N > 0 a source
\* of more than N bytes is rejected with ErrFileTooLarge after at most N + 1
\* bytes were read and nothing was written; one of N bytes or fewer is not
\* rejected for its size.
C18_MaxFileSizeEnforced ==
  (cx.pc # "idle" /\ cx.opts.MaxFileSize > 0) =>
    /\ cx.read <= cx.opts.MaxFileSize + 1
    /\ (cx.read > 0 /\ cx.src.len > cx.opts.MaxFileSize) =>
         (CxDone /\ cx.err = ErrFileTooLarge /\ cx.written = 0)
    /\ cx.src.len <= cx.opts.MaxFileSize => cx.err # ErrFileTooLarge

\* C19: for JPEG and WebP, Compress and Convert alike, the encoder receives
\* clamp(Quality, 1, 100) when Quality is not 0 and the level default 60 / 75 /
\* 90 when it is 0; the value is within 1..100.
C19_EffectiveQuality ==
  (EncoderCalled /\ cx.codec \in {FormatJPEG, FormatWEBP}) =>
    /\ cx.quality \in 1..100
    /\ cx.opts.Quality # 0 => cx.quality = Clamp(cx.opts.Quality)
    /\ cx.opts.Quality = 0 =>
         cx.quality = (CASE cx.opts.Level = CompressionLow -> 60
                         [] cx.opts.Level = CompressionMedium -> 75
                         [] cx.opts.Level = CompressionHigh -> 90)

\* C20: a successful Compress or Convert reports as OriginalSize the bytes read
\* from the source, as CompressedSize the bytes the destination accepted over
\* all its Write calls, and as Format the codec's own format.
C20_ResultSizesExact ==
  (CxDone /\ cx.err = Nil) =>
    /\ cx.result # NilResult
    /\ cx.result[1].OriginalSize = cx.read
    /\ cx.result[1].CompressedSize = cx.written
    /\ cx.result[1].Format = cx.codec

\* C20 witness: a PNG conversion of a JPEG source that succeeded after several
\* Write calls through the countingWriter.
C20_Witness ==
  /\ CxDone
  /\ cx.err = Nil
  /\ cx.codec = FormatPNG
  /\ cx.op = "Convert"
  /\ cx.src.kind = "jpeg"
  /\ cx.writes >= 2
  /\ cx.result[1].CompressedSize = 2

\* C21: whatever the codec, Convert called with a target format other than the
\* codec's own returns an error, and reads nothing from the source and writes
\* nothing to the destination.
C21_ConvertChecksTarget ==
  (cx.pc # "idle" /\ cx.op = "Convert" /\ cx.opts.Format # cx.codec) =>
    /\ cx.read = 0
    /\ cx.written = 0
    /\ cx.pc \in {"entry", "done"}
    /\ CxDone => cx.err # Nil

\* the final extension of path, lower-cased
LowerExt(path) == ToLower(Ext(path))

\* C22: detection looks at the final extension only, whatever its case: .jpg and
\* .jpeg give JPEG, .png gives PNG, .webp gives WEBP, every other path (another
\* extension, none, the empty string) gives the unsupported-format error; and a
\* second call with the same path gives what the first gave.
C22_DetectFormat ==
  det.pc = "done" =>
    /\ LowerExt(det.path) \in {<<".", "j", "p", "g">>, <<".", "j", "p", "e", "g">>} =>
         det.out = [format |-> FormatJPEG, err |-> Nil]
    /\ LowerExt(det.path) = <<".", "p", "n", "g">> => det.out = [format |-> FormatPNG, err |-> Nil]
    /\ LowerExt(det.path) = <<".", "w", "e", "b", "p">> => det.out = [format |-> FormatWEBP, err |-> Nil]
    /\ LowerExt(det.path) \notin {<<".", "j", "p", "g">>, <<".", "j", "p", "e", "g">>, <<".", "p", "n", "g">>, <<".", "w", "e", "b", "p">>} =>
         det.out.err = ErrUnsupportedExt
    /\ det.prev # <<>> => det.prev[1] = det.out

-----------------------------------------------------------------------------
(* Properties of the scan *)

ScanDone == scan.pc = "done"
\* the files of the scanned tree, when the root is the directory
ScanTree == IF scan.inputDir = ScanRoot THEN scan.tree ELSE {}
\* the items of the scan made for the file f
ItemsOf(f) == {k \in 1..Len(scan.items) : scan.items[k].InputPath = f}
JPEGExts == {<<".", "j", "p", "g">>, <<".", "j", "p", "e", "g">>}
\* the format of a recognized extension, <<>> for any other
FormatOfExt(path) ==
  IF LowerExt(path) \in JPEGExts THEN <<FormatJPEG>>
  ELSE IF LowerExt(path) = <<".", "p", "n", "g">> THEN <<FormatPNG>>
  ELSE IF LowerExt(path) = <<".", "w", "e", "b", "p">> THEN <<FormatWEBP>>
  ELSE <<>>
Recognized(path) == FormatOfExt(path) # <<>>
ExampleTree == {<<"i", "/", "a", ".", "j", "p", "g">>, <<"i", "/", "b", ".", "p", "n", "g">>, <<"i", "/", "c", ".", "t", "x", "t">>, <<"i", "/", "s", "/", "D", ".", "J", "P", "E", "G">>}

\* C23: a successful ScanDirectory returns exactly one item for every regular
\* file below the root, at any depth, whose extension is .jpg, .jpeg, .png or
\* .webp in any case, and none for a directory or any other file; such files
\* cause no error; the tree {a.jpg, b.png, c.txt, s/D.JPEG} gives 3 items.
C23_ScanOneItemPerImage ==
  (ScanDone /\ scan.target = NoTarget) =>
    /\ scan.err = Nil =>
         /\ \A f \in ScanTree : Cardinality(ItemsOf(f)) = IF Recognized(f) THEN 1 ELSE 0
         /\ \A k \in 1..Len(scan.items) : scan.items[k].InputPath \in ScanTree
    /\ (scan.inputDir = ScanRoot /\ scan.unreadable = {}) => scan.err = Nil
    /\ (scan.err = Nil /\ scan.tree = ExampleTree) => Len(scan.items) = 3

\* the extension the tests expect of each format
ExpectedExtension(f) ==
  CASE f = FormatJPEG -> <<".", "j", "p", "g">>
    [] f = FormatPNG -> <<".", "p", "n", "g">>
    [] f = FormatWEBP -> <<".", "w", "e", "b", "p">>

\* C24: every item of a successful scan has as output path its input path taken
\* relative to the input root and put under the output root, so that the two
\* relative paths are equal in compress mode and differ only by the extension,
\* which is the target format's, in conversion mode; the directories in between
\* are kept; the item carries the options given to the scan.
C24_ScanOutputPaths ==
  (ScanDone /\ scan.err = Nil) =>
    \A k \in 1..Len(scan.items) :
      LET item == scan.items[k]
          relInput == Rel(scan.inputDir, item.InputPath)
          relOutput == Rel(scan.outputDir, item.OutputPath)
      IN /\ Below(scan.inputDir, item.InputPath)
         /\ Below(scan.outputDir, item.OutputPath)
         /\ scan.target = NoTarget => relOutput = relInput
         /\ scan.target # NoTarget =>
              relOutput = TrimExt(relInput) \o ExpectedExtension(scan.target[1])
         /\ Dir(relOutput) = Dir(relInput)
         /\ scan.opts # <<>> => item.Options = scan.opts[1]
         /\ (scan.opts = <<>> /\ scan.target = NoTarget) => item.Options = DefaultCompressOptions

\* no regular file is at the root path / a regular file is / a directory of the
\* tree cannot be read
RootMissing == scan.inputDir # ScanRoot /\ scan.inputDir \notin scan.tree
RootNotDir == scan.inputDir \in scan.tree
WalkFails == scan.inputDir = ScanRoot /\ scan.unreadable # {}

\* C25: a scan returns an error exactly when the root cannot be accessed, is not
\* a directory, or the walk met an error, and then it returns no item; a root
\* without any image returns no error and no item.
C25_ScanErrors ==
  ScanDone =>
    /\ scan.err # Nil <=> (RootMissing \/ RootNotDir \/ WalkFails)
    /\ RootMissing => scan.err = ErrScanAccess
    /\ RootNotDir => scan.err = ErrScanNotDir
    /\ scan.err # Nil => scan.items = <<>>
    /\ (scan.inputDir = ScanRoot /\ scan.unreadable = {}
        /\ \A f \in scan.tree : ~Recognized(f)) => (scan.err = Nil /\ scan.items = <<>>)

\* C25 witness: the walk had found an image at the root before it failed to
\* read a sub-directory, and the scan returned the error without any item.
C25_Witness ==
  /\ ScanDone
  /\ scan.err = ErrScanWalk
  /\ scan.unreadable = {<<"i", "/", "s">>}
  /\ <<"i", "/", "a", ".", "j", "p", "g">> \in scan.tree
  /\ scan.items = <<>>

\* C26: a successful conversion scan has no item for a file whose format is the
\* target's and one item for every file of another recognized format; a tree
\* holding only files of the target format gives no item and no error.
C26_ScanSkipsTargetFormat ==
  (ScanDone /\ scan.target # NoTarget) =>
    /\ scan.err = Nil =>
         \A f \in ScanTree :
           Cardinality(ItemsOf(f)) =
             IF Recognized(f) /\ FormatOfExt(f) # scan.target THEN 1 ELSE 0
    /\ (scan.inputDir = ScanRoot /\ scan.unreadable = {}
        /\ \A f \in scan.tree : FormatOfExt(f) = scan.target) =>
         (scan.err = Nil /\ scan.items = <<>>)

-----------------------------------------------------------------------------
(* Properties of processItem and of the callers of ProcessBatch *)

\* the worker is inside the Compress call of its processor, or cleaning up after it
InCodec(w) == wk[w].pc \in {"read", "decode", "encode", "cleanup"}
CancellationErrors == {ErrCanceled, ErrDeadline}

\* C27: the processor processItem calls for an item is the one of the format
\* detected from the item's input path, so the Result of a success carries that
\* format; an item with an extension detection rejects, once processItem has it,
\* fails with the unsupported-format error and no processor is called for it.
C27_CodecOfDetectedFormat ==
  /\ \A w \in workers :
       InCodec(w) => wk[w].proc = detectFormatFromPath(ItemOf(w).InputPath).format
  /\ Returned =>
       \A i \in Indices :
         LET d == detectFormatFromPath(items[i].InputPath)
             r == ret.results[i]
         IN /\ Succeeded(r) => (d.err = Nil /\ r.Result[1].Format = d.format)
            /\ d.err # Nil =>
                 /\ Failed(r)
                 /\ hist[i].codec = 0
                 /\ r.Error \notin CancellationErrors => r.Error = ErrUnsupportedExt

\* C27 witness: a returned batch of a .jpg file compressed by the JPEG processor
\* and a .txt file rejected by the detection.
C27_Witness ==
  /\ Returned
  /\ Len(items) = 2
  /\ \E i, j \in Indices :
       /\ Succeeded(ret.results[i])
       /\ ret.results[i].Result[1].Format = FormatJPEG
       /\ hist[i].codec = 1
       /\ ret.results[j].Error = ErrUnsupportedExt
       /\ hist[j].codec = 0

C29_TuiCompleted ==
  tui.sent = "complete" =>
    /\ tui.m.state = "StateCompleted"
    /\ tui.m.completed = Cardinality({i \in 1..Len(tui.results) : tui.results[i].Error = Nil})
    /\ tui.m.failed = Cardinality({i \in 1..Len(tui.results) : tui.results[i].Error # Nil})
    /\ tui.pc = "quit" => (tui.err # Nil <=> \E i \in 1..Len(tui.results) : tui.results[i].Error # Nil)

\* the file system before the batch
InitFileAt(p) == IF p \in DOMAIN InitFiles THEN InitFiles[p] ELSE NoFile

\* what processItem returns for the item when it runs alone on the file
\* system before the batch, its write succeeding or not
SoloResult(item, writeOK) ==
  LET d == detectFormatFromPath(item.InputPath)
      dir == Dir(item.OutputPath)
      proc == ProcessorFor(d.format)
      data == InitInodes[InitFiles[item.InputPath]]
      out == Encoded(proc, data, item.Options)
  IN IF d.err # Nil THEN Failure(item, d.err)
     ELSE IF InitFileAt(item.InputPath) = NoFile THEN Failure(item, ErrOpen)
     ELSE IF \E a \in Ancestors(dir) : InitFileAt(a) # NoFile THEN Failure(item, ErrMkdir)
     ELSE IF item.OutputPath \in InitDirs THEN Failure(item, ErrCreate)
     ELSE IF proc = FormatInvalid THEN Failure(item, ErrUnsupportedFormat)
     ELSE IF proc = FormatPNG /\ Validate(item.Options) # Nil
       THEN Failure(item, Validate(item.Options))
     ELSE IF proc = FormatPNG /\ TooLarge(data, item.Options.MaxFileSize)
       THEN Failure(item, ErrFileTooLarge)
     ELSE IF ~Decodable(data) THEN Failure(item, ErrDecode)
     ELSE IF ~writeOK THEN Failure(item, ErrEncode)
     ELSE Success(item, [OriginalSize |-> data.len, CompressedSize |-> out.len,
                         Format |-> proc])

\* the contents at the item's output path after that run: what was there before
\* when the item fails before or in os.Create, else what was encoded, or nothing
SoloOutput(item, r) ==
  IF r.Error \in {ErrUnsupportedExt, ErrOpen, ErrMkdir, ErrCreate}
    THEN IF InitFileAt(item.OutputPath) = NoFile THEN NoFile
         ELSE InitInodes[InitFileAt(item.OutputPath)]
  ELSE IF r.Error # Nil THEN NoFile
  ELSE LET data == InitInodes[InitFiles[item.InputPath]]
       IN Encoded(r.Result[1].Format, data, item.Options)

\* the result and the output file of item i are those of the item run alone
AsAlone(i) ==
  /\ ret.results[i] \in {SoloResult(items[i], TRUE), SoloResult(items[i], FALSE)}
  /\ LET f == files[items[i].OutputPath]
     IN IF f = NoFile THEN SoloOutput(items[i], ret.results[i]) = NoFile
        ELSE SoloOutput(items[i], ret.results[i]) = inodes[f]

PathsOf(i) == {items[i].InputPath, items[i].OutputPath}
\* the input and output paths of the batch are pairwise distinct
DistinctPaths ==
  /\ \A i \in Indices : items[i].InputPath # items[i].OutputPath
  /\ \A i, j \in Indices : i # j => PathsOf(i) \cap PathsOf(j) = {}
\* no path of an item is a directory on the way to another item's output path
NoPathAbove ==
  \A i, j \in Indices : i # j => PathsOf(j) \cap Ancestors(Dir(items[i].OutputPath)) = {}

\* C30 as stated: in a batch with pairwise distinct paths and no cancellation,
\* the result and the output file of every item are those the item has when it
\* runs alone, whatever the other items are and whether they fail; so they are
\* the same in two batches that differ in another item only.
C30_ItemsIndependent ==
  (Returned /\ ctxErr = Nil /\ DistinctPaths) => \A i \in Indices : AsAlone(i)

\* C30 amended: the same, for batches in which moreover no path of an item is a
\* directory on the way to another item's output path.
C30_ItemsIndependentNoPrefix ==
  (Returned /\ ctxErr = Nil /\ DistinctPaths /\ NoPathAbove) =>
    \A i \in Indices : AsAlone(i)

\* C30 witness: two workers, a valid item and a corrupt one with distinct paths;
\* the corrupt one failed in its codec and was cleaned up, the valid one has the
\* result and the output file it has alone.
C30_Witness ==
  /\ Returned
  /\ ctxErr = Nil
  /\ Cardinality(workers) = 2
  /\ \E i, j \in Indices :
       /\ items[i] = ItemGood
       /\ items[j] = ItemCorrupt
       /\ ret.results[j].Error = ErrDecode
       /\ ret.results[i] = SoloResult(ItemGood, TRUE)
       /\ inodes[files[ItemGood.OutputPath]] = SoloOutput(ItemGood, ret.results[i])

-----------------------------------------------------------------------------
(* ProcessBatch against one worker taking the items in input order *)

\* the file system before the batch
InitFS == [files |-> [p \in AllPaths |-> InitFileAt(p)], inodes |-> InitInodes, dirs |-> InitDirs]

\* processItem run from its first statement to its return on the file system
\* fs, for the item at index i, the token never cancelled, the write of the
\* codec succeeding or not: [fs, result]
ProcessItemOn(fs, item, i, writeOK) ==
  LET d == detectFormatFromPath(item.InputPath)
      inFile == fs.files[item.InputPath]
      out == item.OutputPath
      dir == Dir(out)
      made == [fs EXCEPT !.dirs = @ \cup Ancestors(dir)]
      outFile == IF fs.files[out] # NoFile THEN fs.files[out] ELSE NewInode(i)
      created == [made EXCEPT !.files = [@ EXCEPT ![out] = outFile],
                              !.inodes = (outFile :> Empty) @@ @]
      removed == [created EXCEPT !.files = Remove(@, out)]
      proc == ProcessorFor(d.format)
      data == created.inodes[inFile]
      enc == Encoded(proc, data, item.Options)
  IN IF d.err # Nil THEN [fs |-> fs, result |-> Failure(item, d.err)]
     ELSE IF inFile = NoFile THEN [fs |-> fs, result |-> Failure(item, ErrOpen)]
     ELSE IF \E a \in Ancestors(dir) : a \in DOMAIN fs.files /\ fs.files[a] # NoFile
       THEN [fs |-> fs, result |-> Failure(item, ErrMkdir)]
     ELSE IF out \in made.dirs THEN [fs |-> made, result |-> Failure(item, ErrCreate)]
     ELSE IF proc = FormatInvalid
       THEN [fs |-> created, result |-> Failure(item, ErrUnsupportedFormat)]
     ELSE IF proc = FormatPNG /\ Validate(item.Options) # Nil
       THEN [fs |-> removed, result |-> Failure(item, Validate(item.Options))]
     ELSE IF proc = FormatPNG /\ TooLarge(data, item.Options.MaxFileSize)
       THEN [fs |-> removed, result |-> Failure(item, ErrFileTooLarge)]
     ELSE IF ~Decodable(data) THEN [fs |-> removed, result |-> Failure(item, ErrDecode)]
     ELSE IF ~writeOK
       THEN [fs |-> [removed EXCEPT !.inodes = [@ EXCEPT ![outFile] = Partial]],
             result |-> Failure(item, ErrEncode)]
     ELSE [fs |-> [created EXCEPT !.inodes = [@ EXCEPT ![outFile] = enc]],
           result |-> Success(item, [OriginalSize |-> data.len, CompressedSize |-> enc.len,
                                     Format |-> proc])]

\* one worker: the items 1..i of the batch processed one after the other in
\* input order, oks[k] telling whether the write of item k succeeds
RECURSIVE Sequential(_, _, _, _)
Sequential(fs, batch, oks, i) ==
  IF i = 0 THEN [fs |-> fs, results |-> <<>>]
  ELSE LET before == Sequential(fs, batch, oks, i - 1)
           step == ProcessItemOn(before.fs, batch[i], i, oks[i])
       IN [fs |-> step.fs, results |-> Append(before.results, step.result)]

\* the same regular files with the same contents
SameFiles(f, n, g, m) ==
  \A p \in DOMAIN f :
    /\ (f[p] = NoFile) = (g[p] = NoFile)
    /\ f[p] # NoFile => n[f[p]] = m[g[p]]

\* the returned results and the files left are those of some sequential run
AsSequential ==
  \E oks \in [Indices -> BOOLEAN] :
    LET s == Sequential(InitFS, items, oks, Len(items))
    IN /\ ret.results = s.results
       /\ SameFiles(files, inodes, s.fs.files, s.fs.inodes)

\* C31 as stated: for a batch with pairwise distinct input and output paths and
\* a token that is never cancelled, the returned results and the files left are
\* those of one worker processing the items in input order, for every worker
\* count and every interleaving.
C31_ParallelAsSequential ==
  (Returned /\ ctxErr = Nil /\ DistinctPaths) => AsSequential

\* C31 amended: the same, for batches in which moreover no path of an item is a
\* directory on the way to another item's output path.
C31_ParallelAsSequentialNoPrefix ==
  (Returned /\ ctxErr = Nil /\ DistinctPaths /\ NoPathAbove) => AsSequential

\* C31 witness: two workers, a valid and a corrupt item with distinct paths, the
\* second item reported to the callback before the first, and the outcome is
\* that of the sequential run.
C31_Witness ==
  /\ Returned
  /\ ctxErr = Nil
  /\ Cardinality(workers) = 2
  /\ items = <<ItemGood, ItemCorrupt>>
  /\ cbCount = 2
  /\ cbLog[1].idx = 2
  /\ Succeeded(ret.results[1])
  /\ AsSequential

-----------------------------------------------------------------------------
(* What processItem leaves of the files that were there before the batch *)

\* the file at path p is the one that was there before the batch, with the
\* contents it had
Untouched(p) ==
  /\ files[p] = InitFileAt(p)
  /\ files[p] # NoFile => inodes[files[p]] = InitInodes[InitFileAt(p)]

\* C32: after the batch the input file of every failed item still exists with
\* unchanged content, also when the item's OutputPath equals its InputPath.
C32_InputPreserved ==
  Returned =>
    \A i \in Indices :
      (Failed(ret.results[i]) /\ InitFileAt(items[i].InputPath) # NoFile) =>
        /\ FileAt(items[i].InputPath)
        /\ Untouched(items[i].InputPath)

-----------------------------------------------------------------------------
(* The destinations of one scan *)

\* C33: the output paths of the items one scan returns are pairwise distinct, in
\* compress mode and in conversion mode, so no two items of the batch create,
\* write or remove the same destination file.
C33_ScanOutputsDistinct ==
  ScanDone =>
    \A i, j \in 1..Len(scan.items) :
      i # j => scan.items[i].OutputPath # scan.items[j].OutputPath

-----------------------------------------------------------------------------
(* The progress callback and the return of ProcessBatch *)

\* C34: when ProcessBatch has returned no worker is about to call the progress
\* callback or inside it, and no invocation begins afterwards: every
\* ProgressMsg (sent inside the callback) precedes the BatchCompleteMsg (sent
\* after the return).
C34_CallbacksBeforeReturn ==
  /\ [](Returned => \A w \in WorkerIds : wk[w].pc \notin {"callback", "incb"})
  /\ [][Returned => UNCHANGED cbVars]_vars

\* C34 witness: a returned batch of two items on two workers, each of which was
\* reported to the callback.
C34_Witness ==
  /\ Returned
  /\ progressCallback
  /\ Cardinality(workers) = 2
  /\ Len(cbLog) = 2
  /\ cbLog[1].idx = 2

\* the snapshots taken so far: those handed to the callback and those a worker
\* holds on its way to the callback
Pending == {w \in WorkerIds : wk[w].pc = "callback"}
Counted(p) == p.Completed + p.Failed
SnapshotSums ==
  [k \in 1..(Len(cbLog) + Cardinality(Pending)) |->
     IF k <= Len(cbLog) THEN Counted(cbLog[k].p)
     ELSE Counted(wk[CHOOSE w \in Pending :
                      Cardinality({v \in Pending : v < w}) = k - Len(cbLog) - 1].p)]
ConsistentSnapshot(p) ==
  /\ 0 <= p.Completed
  /\ 0 <= p.Failed
  /\ p.Completed + p.Failed <= p.Total
  /\ p.Total = Len(items)

\* the snapshots taken so far number as many as the items counted, and their
\* values Completed + Failed are 1, 2, ... each once
SnapshotChain ==
  progressCallback =>
    /\ Len(SnapshotSums) = Counted(progress)
    /\ \A n \in 1..Counted(progress) :
         Cardinality({k \in 1..Len(SnapshotSums) : SnapshotSums[k] = n}) = 1
    /\ \A k \in 1..Len(cbLog) : ConsistentSnapshot(cbLog[k].p)
    /\ \A w \in Pending : ConsistentSnapshot(wk[w].p)
    /\ Returned => Len(cbLog) = Len(items)

\* a step that updates the counters raises exactly one of them by one and takes
\* the snapshot of the counters it leaves; no step lowers a counter
SnapshotStep ==
  /\ progress'.Completed >= progress.Completed
  /\ progress'.Failed >= progress.Failed
  /\ \A w \in WorkerIds :
       (wk[w].pc = "update" /\ wk'[w].pc = "callback") =>
         /\ Counted(progress') = Counted(progress) + 1
         /\ wk'[w].p.Completed = progress'.Completed
         /\ wk'[w].p.Failed = progress'.Failed
         /\ wk'[w].p.Total = progress'.Total

\* C35: the snapshots of one batch of N items are consistent and form a chain:
\* each is taken with the counter update, their values Completed + Failed are
\* 1, 2, ..., N each once, each has 0 <= Completed, 0 <= Failed and
\* Completed + Failed <= Total, and no counter decreases from one update to the
\* next.
C35_SnapshotChain == []SnapshotChain /\ [][SnapshotStep]_vars

\* C35 witness: a returned batch of two items on two workers, one failed and one
\* succeeded, the snapshot of the second update handed to the callback first.
C35_Witness ==
  /\ Returned
  /\ progressCallback
  /\ Cardinality(workers) = 2
  /\ Len(cbLog) = 2
  /\ Counted(cbLog[1].p) = 2
  /\ Counted(cbLog[2].p) = 1
  /\ cbLog[1].p.Failed = 1
  /\ cbLog[1].p.Completed = 1

-----------------------------------------------------------------------------
(* The scan and processItem on the same file *)

\* processItem hands the item to a codec: its extension is detected and the
\* format switch has a processor for the format
Dispatched(item) ==
  LET d == detectFormatFromPath(item.InputPath)
  IN d.err = Nil /\ ProcessorFor(d.format) # FormatInvalid

\* C36: every item ScanDirectory returns is dispatched to a codec by
\* processItem, none fails with an unsupported-format error; and a .webp file
\* of the tree is scanned and dispatched like the .jpg and .png files.
C36_ScannedItemsDispatched ==
  (ScanDone /\ scan.err = Nil /\ scan.target = NoTarget) =>
    /\ \A k \in 1..Len(scan.items) : Dispatched(scan.items[k])
    /\ \A f \in ScanTree :
         LowerExt(f) = <<".", "w", "e", "b", "p">> =>
           \E k \in ItemsOf(f) : Dispatched(scan.items[k])

-----------------------------------------------------------------------------
(* Items that fail before their destination is created *)

\* the extension of the path is none of the image extensions
Unrecognized(path) ==
  LowerExt(path) \notin {<<".", "j", "p", "g">>, <<".", "j", "p", "e", "g">>,
                         <<".", "p", "n", "g">>, <<".", "w", "e", "b", "p">>}

\* the item cannot get as far as its destination: its extension is not
\* recognized or there is no file to open at its InputPath
FailsEarly(item) == Unrecognized(item.InputPath) \/ InitFileAt(item.InputPath) = NoFile

\* the file system is as it was before the batch
FileSystemUnchanged ==
  /\ \A p \in DOMAIN files : Untouched(p)
  /\ inodes = InitInodes
  /\ dirs = InitDirs

\* a worker returns from processItem after the detection or after os.Open
EarlyReturn(w) == wk[w].pc \in {"detect", "open"} /\ wk'[w].pc = "store"

\* C37: an item that fails before its destination is created (unrecognized
\* extension, or input that cannot be opened) leaves the file system unchanged:
\* the step in which processItem returns changes no file and no directory, and
\* after a batch of such items no directory and no file has been created and a
\* file that was at an OutputPath is still there with its contents.
C37_EarlyFailureChangesNothing ==
  /\ [][\A w \in WorkerIds : EarlyReturn(w) => UNCHANGED fsVars]_vars
  /\ [](Returned =>
         /\ \A i \in Indices :
              FailsEarly(items[i]) => ret.results[i].Error \notin {Nil, ErrMkdir, ErrCreate, ErrDecode, ErrEncode}
         /\ (\A i \in Indices : FailsEarly(items[i])) => FileSystemUnchanged)

\* C37 witness: the input of the one item is missing and a file is already at
\* its OutputPath; the item failed in os.Open and that file is untouched.
C37_Witness ==
  /\ Returned
  /\ items = <<ItemOverExisting>>
  /\ ret.results[1].Error = ErrOpen
  /\ FileAt(ItemOverExisting.OutputPath)
  /\ Untouched(ItemOverExisting.OutputPath)
  /\ dirs = InitDirs

-----------------------------------------------------------------------------
(* Properties of readAllWithLimit *)

RdDone == rd.pc = "done"
SourceFails == rd.src.errAt >= 0
WholeInput == rd.err = Nil /\ rd.data = <<rd.src.bytes>>
\* the read reaches the byte at which the source fails
ErrorMet == SourceFails /\ (rd.maxSize <= 0 \/ rd.maxSize = MaxInt64 \/ rd.src.errAt <= rd.maxSize)

\* C38: readAllWithLimit returns the whole input without error when maxSize <= 0
\* and when maxSize is MaxInt64 (maxSize + 1 does not wrap around); for
\* 0 < maxSize < MaxInt64 it returns the whole input iff its length is at most
\* maxSize and ErrFileTooLarge otherwise; a read error of the source is returned
\* unchanged.
C38_ReadAllWithLimit ==
  RdDone =>
    /\ (~SourceFails /\ (rd.maxSize <= 0 \/ rd.maxSize = MaxInt64)) => WholeInput
    /\ (~SourceFails /\ 0 < rd.maxSize /\ rd.maxSize < MaxInt64) =>
         /\ WholeInput <=> Len(rd.src.bytes) <= rd.maxSize
         /\ ~WholeInput => (rd.err = ErrFileTooLarge /\ rd.data = <<>>)
    /\ ErrorMet => rd.err = ErrReadSource

\* C38 witness: the longest source read whole under the limit MaxInt64.
C38_Witness ==
  /\ RdDone
  /\ rd.maxSize = MaxInt64
  /\ Len(rd.src.bytes) = MaxLen
  /\ ~SourceFails
  /\ WholeInput

-----------------------------------------------------------------------------
(* Properties of Model.Update *)

\* one call of Update: the model before, the model after and the type of the
\* message handled
C39_Step ==
  LET m == tui.m
      n == tui'.m
      kind == tui'.last
  IN (tui' # tui /\ tui.pc = "running") =>
       /\ n.state # m.state =>
            /\ n.state # "StateWaiting"
            /\ n.state = "StateProcessing" => kind = "BatchStartMsg"
            /\ n.state = "StateCompleted" => kind = "BatchCompleteMsg"
            /\ n.state = "StateError" => kind = "BatchErrorMsg"
       /\ kind = "BatchStartMsg" => n.state = "StateProcessing"
       /\ kind = "BatchCompleteMsg" => n.state = "StateCompleted"
       /\ kind = "BatchErrorMsg" => n.state = "StateError"
       /\ kind \in {"KeyMsg", "WindowSizeMsg", "FrameMsg", "ProgressMsg"} => n.state = m.state
       /\ kind = "ProgressMsg" =>
            /\ n.completed = tui'.p.Completed
            /\ n.failed = tui'.p.Failed
            /\ n.currentFile = tui'.p.Current
            /\ n.totalFiles = m.totalFiles
            /\ n.results = m.results
            /\ n.err = m.err

====
